---- MODULE Spec2Model ----
(***************************************************************************)
(* A model of zdg_skeleton_seq: the validator, the normalizer, the entry   *)
(* builders (tagger.js and renderer.js), the identifier/path generators    *)
(* (utils/encoding.js), the session store (session.js) and the Electron    *)
(* main-process handler (electron.js).                                     *)
(*                                                                         *)
(* Conventions of the model                                                *)
(*  - a JavaScript string is a sequence of pieces of text, written one     *)
(*    character per piece wherever the code looks at characters; a value   *)
(*    that is not a string is one of the sequences in NonStrings;          *)
(*  - an optional field is a set: {} is undefined, {v} is the value v;     *)
(*  - a real number is an integer count of 1/10000 (so 0.9 is 9000 and     *)
(*    Math.round(x * 1000) / 1000 really rounds); timestamps are integer   *)
(*    milliseconds;                                                        *)
(*  - a path is a sequence of segments, each segment a sequence of         *)
(*    strings; the file system is keyed by normalized paths;               *)
(*  - every file-system call either takes effect whole or fails leaving    *)
(*    the file system as it was.                                           *)
(***************************************************************************)
EXTENDS Integers, Sequences, FiniteSets, TLC

\* ------------------------------------------------------------------ bounds

\* the addSequence calls of Spec, which may overlap
MaxCalls == 2

\* the addSequence calls of SeqSpec, which run one after the other
MaxSeqCalls == 3

MaxClock == 1

MaxKeypoints == 3

\* the most characters in the free part of a string given to sanitizeString
MaxSanitizeLen == 3

\* the most poses in a pose array given to normalizePoses and addSequence alone
MaxPoseSeq == 3

\* ------------------------------------------------------- JavaScript values

JsNull == <<"#null">>

JsUndefined == <<"#undefined">>

JsNumber == <<"#number">>

NonStrings == {JsNull, JsUndefined, JsNumber}

IsString(v) == v \notin NonStrings

\* !v for a value that is a string or one of NonStrings (a number stands for
\* a non-zero number)
Falsy(v) == v = JsNull \/ v = JsUndefined \/ v = <<>>

LowerChars == {"a", "b", "s", "w", "z"}

UpperChars == {"A", "S"}

DigitChars == {"0", "1"}

\* String.prototype.toLowerCase, one character
ToLowerChar(c) ==
  CASE c = "A" -> "a"
    [] c = "S" -> "s"
    [] OTHER -> c

ToLowerCase(s) == [i \in 1..Len(s) |-> ToLowerChar(s[i])]

IsWhitespace(c) == c \in {" ", "\n"}

RECURSIVE TrimStart(_)
TrimStart(s) ==
  IF s # <<>> /\ IsWhitespace(Head(s)) THEN TrimStart(Tail(s)) ELSE s

RECURSIVE TrimEnd(_)
TrimEnd(s) ==
  IF s # <<>> /\ IsWhitespace(s[Len(s)])
  THEN TrimEnd(SubSeq(s, 1, Len(s) - 1))
  ELSE s

\* String.prototype.trim
Trim(s) == TrimEnd(TrimStart(s))

\* String.prototype.substring(0, n)
Substring(s, n) == IF Len(s) <= n THEN s ELSE SubSeq(s, 1, n)

RECURSIVE JoinWith(_, _)
JoinWith(msgs, sep) ==
  IF msgs = <<>> THEN ""
  ELSE IF Len(msgs) = 1 THEN msgs[1]
  ELSE msgs[1] \o sep \o JoinWith(Tail(msgs), sep)

\* the option type: {} is undefined
Undefined == {}

Some(v) == {v}

Val(o) == CHOOSE v \in o : TRUE

\* ---------------------------------------------------- utils/encoding.js

SanitizeMaxLen == 50

SessionPartLen == 8

SequencePartLen == 12

\* .replace(/[^a-z0-9_-]/g, '_')
ReplaceInvalid(s) ==
  [i \in 1..Len(s) |->
     IF s[i] \in LowerChars \cup DigitChars \cup {"_", "-"} THEN s[i] ELSE "_"]

\* .replace(/_+/g, '_')
RECURSIVE CollapseUnderscores(_)
CollapseUnderscores(s) ==
  IF Len(s) < 2 THEN s
  ELSE IF s[1] = "_" /\ s[2] = "_" THEN CollapseUnderscores(Tail(s))
  ELSE <<s[1]>> \o CollapseUnderscores(Tail(s))

RECURSIVE StripLeadingUnderscores(_)
StripLeadingUnderscores(s) ==
  IF s # <<>> /\ Head(s) = "_" THEN StripLeadingUnderscores(Tail(s)) ELSE s

RECURSIVE StripTrailingUnderscores(_)
StripTrailingUnderscores(s) ==
  IF s # <<>> /\ s[Len(s)] = "_"
  THEN StripTrailingUnderscores(SubSeq(s, 1, Len(s) - 1))
  ELSE s

\* .replace(/^_+|_+$/g, '')
TrimUnderscores(s) == StripTrailingUnderscores(StripLeadingUnderscores(s))

sanitizeString(str) ==
  IF Falsy(str) \/ ~IsString(str)
  THEN <<"u", "n", "k", "n", "o", "w", "n">>
  ELSE Substring(TrimUnderscores(CollapseUnderscores(ReplaceInvalid(ToLowerCase(str)))),
                 SanitizeMaxLen)

\* `${timestamp}`: the decimal digits of a non-negative integer
RECURSIVE DecimalDigits(_)
DecimalDigits(n) ==
  IF n < 10 THEN <<ToString(n)>>
  ELSE DecimalDigits(n \div 10) \o <<ToString(n % 10)>>

\* the id without its random suffix: `${sessionPart}_${sequencePart}_${timestamp}`
generateSequenceIdWithoutRandom(session, sequence, timestamp, randomPart) ==
  Substring(sanitizeString(session), SessionPartLen) \o <<"_">>
    \o Substring(sanitizeString(sequence), SequencePartLen) \o <<"_">>
    \o DecimalDigits(timestamp)

\* `${sessionPart}_${sequencePart}_${timestamp}_${randomPart}`
generateSequenceId(session, sequence, timestamp, randomPart) ==
  Substring(sanitizeString(session), SessionPartLen) \o <<"_">>
    \o Substring(sanitizeString(sequence), SequencePartLen) \o <<"_">>
    \o DecimalDigits(timestamp) \o <<"_">> \o randomPart

\* `${dataPath}/sessions/${sessionPart}/frames/${sequencePart}_${timestamp}.jpg`
generateFrameReference(session, sequence, dataPath, timestamp) ==
  dataPath \o << <<"sessions">>, sanitizeString(session), <<"frames">>,
                 sanitizeString(sequence) \o <<"_", ToString(timestamp), ".jpg">> >>

\* the default dataPath, './data'
DefaultDataPath == << <<".">>, <<"data">> >>

\* utils/encoding.js generateSessionPath: `./data/sessions/${sanitizedSession}`
EncodingGenerateSessionPath(session) ==
  DefaultDataPath \o << <<"sessions">>, sanitizeString(session) >>

\* -------------------------------------------------------- numbers

\* one unit of the fixed-point reals: 1.0
One == 10000

\* Number.NaN: a value outside the range of every number the model uses
NaN == -999999999

\* !x for a number
NumFalsy(x) == x = 0 \/ x = NaN

\* Math.round(x * 1000) / 1000: to the nearest multiple of 0.001, halves up
Round3(x) == ((x + 5) \div 10) * 10

\* ------------------------------------------------- utils/validation.js

MaxPoses == 1000

MaxTagLength == 100

\* 10 MB of decoded data: the longest base64 text with length * 0.75 / 2^20 <= 10
MaxFrameBase64Len == 13981013

FrameImageTypes == {"jpeg", "jpg", "png", "gif", "bmp", "webp"}

Valid == [isValid |-> TRUE, error |-> ""]

Invalid(msg) == [isValid |-> FALSE, error |-> msg]

\* typeof x.score !== 'number' || x.score < 0 || x.score > 1, for a number
OutOfUnitRange(x) == x # NaN /\ (x < 0 \/ x > One)

validateKeypoint(keypoint) ==
  IF ~keypoint.isObject
  THEN Invalid("Keypoint must be an object")
  ELSE IF Falsy(keypoint.part) \/ ~IsString(keypoint.part)
  THEN Invalid("Keypoint must have a part name (string)")
  ELSE IF keypoint.position = Undefined
  THEN Invalid("Keypoint must have a position object")
  ELSE IF Val(keypoint.position).x = NaN \/ Val(keypoint.position).y = NaN
  THEN Invalid("Keypoint position coordinates must be finite numbers")
  ELSE IF keypoint.score # Undefined /\ OutOfUnitRange(Val(keypoint.score))
  THEN Invalid("Keypoint score must be a number between 0 and 1")
  ELSE IF keypoint.confidence # Undefined /\ OutOfUnitRange(Val(keypoint.confidence))
  THEN Invalid("Keypoint confidence must be a number between 0 and 1")
  ELSE Valid

\* the first index i with an invalid keypoint, 0 when there is none
FirstInvalidKeypoint(keypoints) ==
  LET bad == {i \in 1..Len(keypoints) : ~validateKeypoint(keypoints[i]).isValid}
  IN IF bad = {} THEN 0 ELSE CHOOSE i \in bad : \A j \in bad : i <= j

validateSinglePose(pose) ==
  IF ~pose.isObject
  THEN Invalid("Pose must be an object")
  ELSE IF pose.keypoints = Undefined
  THEN Invalid("Pose must have keypoints array")
  ELSE IF Val(pose.keypoints) = <<>>
  THEN Invalid("Pose keypoints array cannot be empty")
  ELSE IF FirstInvalidKeypoint(Val(pose.keypoints)) # 0
  THEN LET i == FirstInvalidKeypoint(Val(pose.keypoints))
       IN Invalid("Keypoint at index " \o ToString(i - 1) \o ": "
                    \o validateKeypoint(Val(pose.keypoints)[i]).error)
  ELSE IF pose.score # Undefined /\ OutOfUnitRange(Val(pose.score))
  THEN Invalid("Pose score must be a number between 0 and 1")
  ELSE IF pose.confidence # Undefined /\ OutOfUnitRange(Val(pose.confidence))
  THEN Invalid("Pose confidence must be a number between 0 and 1")
  ELSE IF pose.timestamp # Undefined /\ Val(pose.timestamp) # NaN /\ Val(pose.timestamp) < 0
  THEN Invalid("Pose timestamp must be a non-negative number")
  ELSE Valid

FirstInvalidPose(poses) ==
  LET bad == {i \in 1..Len(poses) : ~validateSinglePose(poses[i]).isValid}
  IN IF bad = {} THEN 0 ELSE CHOOSE i \in bad : \A j \in bad : i <= j

validatePoses(poses) ==
  IF poses = <<>>
  THEN Invalid("Poses array cannot be empty")
  ELSE IF Len(poses) > MaxPoses
  THEN Invalid("Too many poses (maximum 1000 per sequence)")
  ELSE IF FirstInvalidPose(poses) # 0
  THEN LET i == FirstInvalidPose(poses)
       IN Invalid("Pose at index " \o ToString(i - 1) \o ": "
                    \o validateSinglePose(poses[i]).error)
  ELSE Valid

\* /^data:image\/(jpeg|jpg|png|gif|bmp|webp);base64,([A-Za-z0-9+/=]+)$/
\* a frame is a string described by its parts: whether it has the shape
\* data:image/<imageType>;base64,<data>, the image type, and the data's
\* length and alphabet ("base64", or "other" for any other character)
FrameMatchesDataUrl(frame) ==
  /\ frame.dataUrl
  /\ frame.imageType \in FrameImageTypes
  /\ frame.dataLen >= 1
  /\ frame.dataChars = "base64"

validateFrame(frame) ==
  IF frame.kind # "string" \/ frame.empty
  THEN Invalid("Frame must be a string")
  ELSE IF ~FrameMatchesDataUrl(frame)
  THEN Invalid("Frame must be a valid base64 data URL (data:image/[type];base64,[data])")
  ELSE IF frame.dataLen > MaxFrameBase64Len
  THEN Invalid("Frame image is too large (maximum 10MB)")
  ELSE Valid

\* !frame
FrameFalsy(frame) == frame.kind = "null" \/ (frame.kind = "string" /\ frame.empty)

IsSessionChar(c) == c \in LowerChars \cup UpperChars \cup DigitChars \cup {"_", "-"}

SessionErrors(session) ==
  IF Falsy(session) \/ ~IsString(session) \/ Trim(session) = <<>>
  THEN <<"Session must be a non-empty string">>
  ELSE IF \E i \in 1..Len(Trim(session)) : ~IsSessionChar(Trim(session)[i])
  THEN <<"Session must contain only alphanumeric characters, underscores, and hyphens">>
  ELSE <<>>

SequenceErrors(sequence) ==
  IF Falsy(sequence) \/ ~IsString(sequence) \/ Trim(sequence) = <<>>
  THEN <<"Sequence must be a non-empty string">>
  ELSE <<>>

PosesErrors(poses) ==
  IF ~validatePoses(poses).isValid
  THEN <<"Poses validation failed: " \o validatePoses(poses).error>>
  ELSE <<>>

TagErrors(tag) ==
  IF Falsy(tag) \/ ~IsString(tag) \/ Trim(tag) = <<>>
  THEN <<"Tag must be a non-empty string">>
  ELSE IF Len(Trim(tag)) > MaxTagLength
  THEN <<"Tag must be less than 100 characters">>
  ELSE <<>>

\* options?.saveFrame: undefined when options is not an object
OptionsSaveFrame(options) == options.isObject /\ options.saveFrame

\* validateInputs checking every frame that is present, whatever saveFrame is
FrameErrorsWhenPresent(frame, options) ==
  IF ~FrameFalsy(frame) /\ ~validateFrame(frame).isValid
  THEN <<"Frame validation failed: " \o validateFrame(frame).error>>
  ELSE <<>>

FrameErrors(frame, options) ==
  IF OptionsSaveFrame(options) /\ ~FrameFalsy(frame) /\ ~validateFrame(frame).isValid
  THEN <<"Frame validation failed: " \o validateFrame(frame).error>>
  ELSE <<>>

\* if (options && typeof options !== 'object'); options.isObject is false for
\* a truthy value that is not an object
OptionsErrors(options) ==
  IF ~options.isObject THEN <<"Options must be an object">> ELSE <<>>

\* error: null, where a message is a string
NullMessage == "#null"

\* the object validateInputs returns for the messages collected
ValidationResult(errors) ==
  [isValid |-> errors = <<>>,
   error |-> IF errors = <<>> THEN NullMessage ELSE JoinWith(errors, "; "),
   errors |-> errors]

\* validateInputs returning at the first failing field
validateInputsFirstError(session, sequence, poses, tag, frame, options) ==
  LET all == SessionErrors(session) \o SequenceErrors(sequence)
               \o PosesErrors(poses) \o TagErrors(tag)
               \o FrameErrors(frame, options) \o OptionsErrors(options)
      errors == IF all = <<>> THEN <<>> ELSE <<all[1]>>
  IN ValidationResult(errors)

validateInputs(session, sequence, poses, tag, frame, options) ==
  LET errors == SessionErrors(session) \o SequenceErrors(sequence)
                  \o PosesErrors(poses) \o TagErrors(tag)
                  \o FrameErrors(frame, options) \o OptionsErrors(options)
  IN ValidationResult(errors)


\* ------------------------------------------------------------ normalizer.js

keypointOrder ==
  << "nose", "leftEye", "rightEye", "leftEar", "rightEar",
     "leftShoulder", "rightShoulder", "leftElbow", "rightElbow",
     "leftWrist", "rightWrist", "leftHip", "rightHip",
     "leftKnee", "rightKnee", "leftAnkle", "rightAnkle" >>

DefaultConfidenceThreshold == 3000

FrameIntervalMs == 33

Min(S) == CHOOSE x \in S : \A y \in S : x <= y

Max(S) == CHOOSE x \in S : \A y \in S : x >= y

\* a || b || 0 for two optional numbers
FirstTruthy(a, b) ==
  IF a # Undefined /\ ~NumFalsy(Val(a)) THEN Val(a)
  ELSE IF b # Undefined /\ ~NumFalsy(Val(b)) THEN Val(b)
  ELSE 0

normalizeConfidence(score) ==
  LET s == IF NumFalsy(score) THEN 0 ELSE score
      normalized == Max({0, Min({One, s})})
  IN Round3(normalized)

\* keypointMap: the part names that some keypoint with a part and a position
\* declares, each mapped to the last such keypoint
KeypointMap(keypoints) ==
  LET usable == {i \in 1..Len(keypoints) :
                   ~Falsy(keypoints[i].part) /\ keypoints[i].position # Undefined}
      names == {keypoints[i].part : i \in usable}
  IN [n \in names |->
        keypoints[Max({i \in usable : keypoints[i].part = n})]]

calculateBoundingBoxFromKeypoints(keypoints) ==
  LET validKeypoints == {kp \in keypoints : kp.position # Undefined}
      xs == {Val(kp.position).x : kp \in validKeypoints}
      ys == {Val(kp.position).y : kp \in validKeypoints}
  IN IF validKeypoints = {}
     THEN [minX |-> 0, minY |-> 0, maxX |-> 0, maxY |-> 0, width |-> 0, height |-> 0]
     ELSE [minX |-> Min(xs), minY |-> Min(ys), maxX |-> Max(xs), maxY |-> Max(ys),
           width |-> Max(xs) - Min(xs), height |-> Max(ys) - Min(ys)]

\* one entry of keypointOrder.map(...)
NormalizeKeypoint(part, keypointMap, options) ==
  LET confidenceThreshold ==
        IF options.confidenceThreshold # Undefined
             /\ ~NumFalsy(Val(options.confidenceThreshold))
        THEN Val(options.confidenceThreshold)
        ELSE DefaultConfidenceThreshold
  IN IF <<part>> \notin DOMAIN keypointMap
     THEN [part |-> part, position |-> [x |-> 0, y |-> 0],
           confidence |-> 0, visible |-> FALSE]
     ELSE LET kp == keypointMap[<<part>>]
              confidence == normalizeConfidence(FirstTruthy(kp.score, kp.confidence))
              visible == confidence >= confidenceThreshold
              rounded == [x |-> Round3(Val(kp.position).x),
                          y |-> Round3(Val(kp.position).y)]
              bbox == calculateBoundingBoxFromKeypoints(
                        {keypointMap[n] : n \in DOMAIN keypointMap})
              position ==
                IF options.normalizeScale /\ visible
                     /\ bbox.width > 0 /\ bbox.height > 0
                THEN [x |-> ((rounded.x - bbox.minX) * One) \div bbox.width,
                      y |-> ((rounded.y - bbox.minY) * One) \div bbox.height]
                ELSE rounded
          IN [part |-> part, position |-> position,
              confidence |-> confidence, visible |-> visible]

\* a variant that maps over the keypoints of the input instead of keypointOrder
normalizeKeypointsOfInput(keypoints, options) ==
  [i \in 1..Len(keypoints) |->
     NormalizeKeypoint(keypoints[i].part[1], KeypointMap(keypoints), options)]

normalizeKeypoints(keypoints, options) ==
  [i \in 1..Len(keypointOrder) |->
     NormalizeKeypoint(keypointOrder[i], KeypointMap(keypoints), options)]

calculateBoundingBox(keypoints) ==
  LET visibleKeypoints == {i \in 1..Len(keypoints) : keypoints[i].visible}
      xs == {keypoints[i].position.x : i \in visibleKeypoints}
      ys == {keypoints[i].position.y : i \in visibleKeypoints}
  IN IF visibleKeypoints = {}
     THEN [x |-> Some(0), y |-> Some(0), minX |-> Undefined, minY |-> Undefined,
           width |-> Some(0), height |-> Some(0)]
     ELSE [x |-> Some(Min(xs)), y |-> Some(Min(ys)),
           minX |-> Undefined, minY |-> Undefined,
           width |-> Some(Max(xs) - Min(xs)), height |-> Some(Max(ys) - Min(ys))]

normalizeBoundingBox(bbox) ==
  [x |-> Round3(FirstTruthy(bbox.x, bbox.minX)),
   y |-> Round3(FirstTruthy(bbox.y, bbox.minY)),
   width |-> Round3(FirstTruthy(bbox.width, Undefined)),
   height |-> Round3(FirstTruthy(bbox.height, Undefined))]

\* frameIndex counts from 0
normalizeSinglePose(pose, frameIndex, options) ==
  LET normalizedKeypoints ==
        normalizeKeypoints(IF pose.keypoints = Undefined THEN <<>>
                           ELSE Val(pose.keypoints), options)
      boundingBox ==
        normalizeBoundingBox(IF pose.boundingBox # Undefined
                             THEN Val(pose.boundingBox)
                             ELSE calculateBoundingBox(normalizedKeypoints))
  IN [timestamp |-> IF pose.timestamp # Undefined /\ ~NumFalsy(Val(pose.timestamp))
                    THEN Val(pose.timestamp)
                    ELSE frameIndex * FrameIntervalMs,
      keypoints |-> normalizedKeypoints,
      confidence |-> normalizeConfidence(FirstTruthy(pose.score, pose.confidence)),
      bbox |-> boundingBox]

normalizePoses(rawPoses, options) ==
  [i \in 1..Len(rawPoses) |-> normalizeSinglePose(rawPoses[i], i - 1, options)]


\* --------------------------------------------------- tagger.js, renderer.js

RECURSIVE SumOver(_, _)
\* the sum of f[i] over the indices in S
SumOver(f, S) ==
  IF S = {} THEN 0
  ELSE LET i == CHOOSE j \in S : TRUE IN f[i] + SumOver(f, S \ {i})

\* Math.round(n / d) for d > 0: halves toward +Infinity
RoundDiv(n, d) == (2 * n + d) \div (2 * d)

calculateSequenceDuration(poses) ==
  IF Len(poses) < 2 THEN 0
  ELSE poses[Len(poses)].timestamp - poses[1].timestamp

calculateAverageConfidence(poses) ==
  IF Len(poses) = 0 THEN 0
  ELSE LET totalConfidence ==
             SumOver([i \in 1..Len(poses) |-> poses[i].confidence], 1..Len(poses))
       IN RoundDiv(totalConfidence, 10 * Len(poses)) * 10

assessKeypointQuality(poses) ==
  LET visibleCount == [i \in 1..Len(poses) |->
                         Cardinality({k \in 1..Len(poses[i].keypoints) :
                                        poses[i].keypoints[k].visible})]
      total == SumOver(visibleCount, 1..Len(poses))
  IN IF Len(poses) = 0 THEN "none"
     ELSE IF total >= 15 * Len(poses) THEN "high"
     ELSE IF total >= 10 * Len(poses) THEN "medium"
     ELSE IF total >= 5 * Len(poses) THEN "low"
     ELSE "poor"

\* Math.round((poses.length / (duration / 1000)) * 10) / 10
calculateFrameRate(poses) ==
  LET duration == calculateSequenceDuration(poses)
  IN IF Len(poses) < 2 \/ duration = 0 THEN 0
     ELSE IF duration > 0
     THEN RoundDiv(Len(poses) * 10000, duration) * (One \div 10)
     ELSE RoundDiv(-(Len(poses) * 10000), -duration) * (One \div 10)

extractMetadata(poses, options) ==
  [source |-> "posenet",
   version |-> "1.0.0",
   normalization |-> [scale_normalized |-> options.normalizeScale,
                      confidence_threshold |-> DefaultConfidenceThreshold],
   sequence_info |-> [start_timestamp |-> IF poses = <<>> THEN 0 ELSE poses[1].timestamp,
                      end_timestamp |-> IF poses = <<>> THEN 0
                                        ELSE poses[Len(poses)].timestamp,
                      frame_count |-> Len(poses)]]

\* session.replace(/[^a-zA-Z0-9_-]/g, '_')
ReplaceNonSessionChars(session) ==
  [i \in 1..Len(session) |-> IF IsSessionChar(session[i]) THEN session[i] ELSE "_"]

\* tagger.js: `${dataPath}/sessions/${sanitizedSession}/sequences.jsonl`
generateSessionPath(session, dataPath) ==
  dataPath \o << <<"sessions">>, ReplaceNonSessionChars(session), <<"sequences.jsonl">> >>

\* the sequence entry both implementations build; t is the value of the entry's
\* own Date.now(), tId the one read by generateSequenceId
SequenceEntry(session, sequence, poses, tag, t, tId, randomPart, metadata, frameReference) ==
  [id |-> generateSequenceId(session, sequence, tId, randomPart),
   session |-> session,
   sequence |-> sequence,
   tag |-> tag,
   timestamp |-> t,
   duration |-> calculateSequenceDuration(poses),
   poses |-> poses,
   metadata |-> [pose_count |-> Len(poses),
                 avg_confidence |-> calculateAverageConfidence(poses),
                 keypoint_quality |-> assessKeypointQuality(poses),
                 frame_rate |-> calculateFrameRate(poses)] @@ metadata,
   frame_reference |-> frameReference]

\* a variant that goes on whatever the validation found
RejectedNever(validationResult) == FALSE

\* if (!validationResult.isValid)
Rejected(validationResult) == ~validationResult.isValid

Failure(code, error) ==
  [success |-> FALSE, code |-> code, error |-> error,
   data |-> Undefined, persistence |-> Undefined]

\* tagger.js addSequence giving a frame reference whenever saveFrame is set
TaggerAddSequenceAlwaysReferencing(a, t, tId, tRef, randomPart) ==
  LET dataPath == IF a.options.dataPath = Undefined THEN DefaultDataPath
                  ELSE Val(a.options.dataPath)
      validationResult ==
        validateInputs(a.session, a.sequence, a.poses, a.tag, a.frame, a.options)
      normalizedPoses == normalizePoses(a.poses, a.options)
      frameReference ==
        IF a.options.saveFrame
        THEN Some(generateFrameReference(a.session, a.sequence, dataPath, tRef))
        ELSE Undefined
  IN IF Rejected(validationResult)
     THEN Failure("VALIDATION_ERROR", validationResult.error)
     ELSE [success |-> TRUE, code |-> "", error |-> "",
           data |-> Some(SequenceEntry(a.session, a.sequence, normalizedPoses, a.tag,
                                       t, tId, randomPart,
                                       extractMetadata(normalizedPoses, a.options),
                                       frameReference)),
           persistence |-> Some([sessionPath |-> generateSessionPath(a.session, dataPath),
                                 shouldSaveFrame |->
                                   a.options.saveFrame /\ ~FrameFalsy(a.frame),
                                 frameData |-> IF a.options.saveFrame
                                               THEN Some(a.frame) ELSE Undefined])]

\* tagger.js addSequence: a pure function of its arguments, of the three clock
\* readings t (entry), tId (id) and tRef (frame reference) and of the random suffix
TaggerAddSequence(a, t, tId, tRef, randomPart) ==
  LET dataPath == IF a.options.dataPath = Undefined THEN DefaultDataPath
                  ELSE Val(a.options.dataPath)
      validationResult ==
        validateInputs(a.session, a.sequence, a.poses, a.tag, a.frame, a.options)
      normalizedPoses == normalizePoses(a.poses, a.options)
      frameReference ==
        IF a.options.saveFrame /\ ~FrameFalsy(a.frame)
        THEN Some(generateFrameReference(a.session, a.sequence, dataPath, tRef))
        ELSE Undefined
  IN IF Rejected(validationResult)
     THEN Failure("VALIDATION_ERROR", validationResult.error)
     ELSE [success |-> TRUE, code |-> "", error |-> "",
           data |-> Some(SequenceEntry(a.session, a.sequence, normalizedPoses, a.tag,
                                       t, tId, randomPart,
                                       extractMetadata(normalizedPoses, a.options),
                                       frameReference)),
           persistence |-> Some([sessionPath |-> generateSessionPath(a.session, dataPath),
                                 shouldSaveFrame |->
                                   a.options.saveFrame /\ ~FrameFalsy(a.frame),
                                 frameData |-> IF a.options.saveFrame
                                               THEN Some(a.frame) ELSE Undefined])]

\* renderer.js addSequence up to the ipcRenderer.invoke: the message it sends
RendererSaveRequest(a, t, tId, tRef, randomPart) ==
  LET normalizedPoses == normalizePoses(a.poses, a.options)
      frameReference ==
        IF a.options.saveFrame /\ ~FrameFalsy(a.frame)
        THEN Some(generateFrameReference(a.session, a.sequence, DefaultDataPath, tRef))
        ELSE Undefined
  IN [sessionPath |-> generateSessionPath(a.session, DefaultDataPath),
      data |-> SequenceEntry(a.session, a.sequence, normalizedPoses, a.tag,
                             t, tId, randomPart,
                             [source |-> "posenet",
                              version |-> "1.0.0",
                              normalization |->
                                [scale_normalized |-> a.options.normalizeScale,
                                 confidence_threshold |-> DefaultConfidenceThreshold]],
                             frameReference),
      frameData |-> IF a.options.saveFrame THEN Some(a.frame) ELSE Undefined,
      frameReference |-> frameReference]

\* renderer.js addSequence after the invoke returned saveResult
RendererResult(request, saveResult) ==
  IF saveResult.success
  THEN [success |-> TRUE, code |-> "", error |-> "",
        data |-> Some([id |-> request.data.id,
                       session |-> request.data.session,
                       sequence |-> request.data.sequence,
                       tag |-> request.data.tag,
                       timestamp |-> request.data.timestamp,
                       poseCount |-> Len(request.data.poses),
                       frameReference |-> request.frameReference,
                       sessionPath |-> request.sessionPath]),
        persistence |-> Undefined]
  ELSE saveResult


\* ------------------------------------------------------------- session.js

\* path.dirname
Dirname(path) == SubSeq(path, 1, Len(path) - 1)

\* path.join(dir, name)
Join(dir, name) == Append(dir, name)

\* the file the operating system resolves a relative path to: '.' segments drop
RECURSIVE Resolve(_)
Resolve(path) ==
  IF path = <<>> THEN <<>>
  ELSE IF Head(path) = <<".">> THEN Resolve(Tail(path))
  ELSE <<Head(path)>> \o Resolve(Tail(path))

\* the directories fs.mkdir(dir, { recursive: true }) makes exist
MkdirRecursive(dir) == {SubSeq(Resolve(dir), 1, n) : n \in 1..Len(Resolve(dir))}

\* the base directory saveFrameImage joins the frame reference to
FrameBaseDir == << <<".">>, <<"data">>, <<"sessions">> >>

\* path.join('./data/sessions', frameReference), which normalizes the result
FramePath(frameReference) == Resolve(FrameBaseDir \o frameReference)

\* /^data:image\/([a-zA-Z]*);base64,(.*)$/
FrameDataMatches(frameData) ==
  /\ frameData.kind = "string"
  /\ frameData.dataUrl
  /\ frameData.dataChars # "newline"

\* the names every object inherits from Object.prototype (those the model uses)
ObjectPrototypeKeys == {<<"constructor">>, <<"toString">>}

\* JSON.stringify(sequenceData) + '\n': one line of the log
JsonLine(sequenceData) == [json |-> sequenceData]

\* JSON.parse(line)
JsonParseLine(line) == line.json

createSessionMetadata(sessionId, tCreated, tUpdated) ==
  [session_id |-> sessionId,
   created_at |-> tCreated,
   updated_at |-> tUpdated,
   sequence_count |-> 0,
   tags |-> <<>>,
   statistics |-> [total_frames |-> 0,
                   avg_sequence_length |-> 0,
                   pose_distribution |-> <<>>],
   version |-> "1.0.0"]

\* a pose_distribution is a function from tags to optional numbers: {} is null
\* if (!pd[tag]) pd[tag] = 0;  pd[tag]++
\* an absent tag that Object.prototype defines reads as a function: it is
\* truthy, and ++ of it is NaN
IncrementPoseDistribution(pd, tag) ==
  LET old == IF tag \in DOMAIN pd
             THEN (IF pd[tag] = Undefined \/ NumFalsy(Val(pd[tag]))
                   THEN 1 ELSE Val(pd[tag]) + 1)
             ELSE IF tag \in ObjectPrototypeKeys THEN NaN
             ELSE 1
  IN [t \in DOMAIN pd \cup {tag} |-> IF t = tag THEN Some(old) ELSE pd[t]]

\* Math.round((avg * (count - 1) + n) / count)
IncrementalAverage(avg, count, n) == RoundDiv(avg * (count - 1) + n, count)

\* a variant that keeps, of the tags, only the tag of the new entry
UpdatedMetadataReplacingTags(metadata, sequenceData, tUpdated) ==
  LET count == metadata.sequence_count + 1
      n == Len(sequenceData.poses)
  IN [metadata EXCEPT
        !.updated_at = tUpdated,
        !.sequence_count = count,
        !.statistics.total_frames = @ + n,
        !.statistics.avg_sequence_length = IncrementalAverage(@, count, n),
        !.tags = <<sequenceData.tag>>,
        !.statistics.pose_distribution =
           IncrementPoseDistribution(@, sequenceData.tag)]

\* updateSessionMetadata between the read and the write; tUpdated is Date.now()
UpdatedMetadata(metadata, sequenceData, tUpdated) ==
  LET count == metadata.sequence_count + 1
      n == Len(sequenceData.poses)
  IN [metadata EXCEPT
        !.updated_at = tUpdated,
        !.sequence_count = count,
        !.statistics.total_frames = @ + n,
        !.statistics.avg_sequence_length = IncrementalAverage(@, count, n),
        !.tags = IF \E i \in 1..Len(@) : @[i] = sequenceData.tag
                 THEN @ ELSE Append(@, sequenceData.tag),
        !.statistics.pose_distribution =
           IncrementPoseDistribution(@, sequenceData.tag)]

\* JSON.stringify(metadata, null, 2): NaN is written as null
JsonStringifyMetadata(metadata) ==
  [metadata EXCEPT
     !.statistics.pose_distribution =
        [t \in DOMAIN @ |-> IF @[t] = Some(NaN) THEN Undefined ELSE @[t]]]

\* JSON.parse(metadataFile)
JsonParseMetadata(text) == text


\* ------------------------------------------------------------------ inputs

NoFrame ==
  [kind |-> "null", empty |-> FALSE, dataUrl |-> FALSE, imageType |-> "",
   dataLen |-> 0, dataChars |-> "base64", padding |-> 0]

\* 'data:image/jpeg;base64,AAAA'
JpegFrame ==
  [kind |-> "string", empty |-> FALSE, dataUrl |-> TRUE, imageType |-> "jpeg",
   dataLen |-> 4, dataChars |-> "base64", padding |-> 0]

\* 'data:image/tiff;base64,AAAA'
TiffFrame ==
  [kind |-> "string", empty |-> FALSE, dataUrl |-> TRUE, imageType |-> "tiff",
   dataLen |-> 4, dataChars |-> "base64", padding |-> 0]

Keypoint(part, x, y, score) ==
  [isObject |-> TRUE, part |-> part, position |-> Some([x |-> x, y |-> y]),
   score |-> score, confidence |-> Undefined]

Pose(keypoints, timestamp) ==
  [isObject |-> TRUE, keypoints |-> Some(keypoints), score |-> Some(8500),
   confidence |-> Undefined, timestamp |-> timestamp, boundingBox |-> Undefined]

NosePose == Pose(<<Keypoint(<<"nose">>, 3200000, 2400000, Some(9000))>>, Undefined)

Options(saveFrame) ==
  [isObject |-> TRUE, saveFrame |-> saveFrame, normalizeScale |-> FALSE, includeMetadata |-> TRUE,
   dataPath |-> Undefined, confidenceThreshold |-> Undefined]

Args(session, poses, tag, frame, saveFrame) ==
  [session |-> session, sequence |-> <<"w">>, poses |-> poses, tag |-> tag,
   frame |-> frame, options |-> Options(saveFrame)]

\* the arguments of the addSequence calls of the system specification
ValidCallInputs ==
  { Args(<<"a">>, <<NosePose, NosePose>>, <<"wave">>, NoFrame, FALSE),
    Args(<<"a">>, <<NosePose>>, <<"jump">>, JpegFrame, TRUE),
    Args(<<"a">>, <<NosePose>>, <<"constructor">>, NoFrame, FALSE),
    Args(<<"b">>, <<NosePose>>, <<"wave">>, NoFrame, FALSE),
    Args(<<" ", "b">>, <<NosePose>>, <<"wave">>, NoFrame, FALSE),
    Args(<<"_", "b">>, <<NosePose>>, <<"jump">>, NoFrame, FALSE) }

InvalidCallInputs ==
  { Args(<<>>, <<NosePose>>, <<"wave">>, NoFrame, FALSE),
    Args(<<"a">>, <<NosePose>>, <<"wave">>, TiffFrame, TRUE) }

CallInputs == ValidCallInputs \cup InvalidCallInputs

\* generateRandomString(4)
RandomSuffixes == { <<"a", "b", "0", "1">> }

\* ------------------------------------------------------------------- state

Calls == 1..MaxCalls

VARIABLES
  now,        \* the last value Date.now() returned
  dirs,       \* the directories that exist
  logFiles,   \* path of a sequences.jsonl -> its lines
  metaFiles,  \* path of a metadata.json -> its JSON text
  frameFiles, \* path of a frame image -> the frame data written
  pc,         \* where each addSequence call stands
  impl,       \* each call's implementation: "renderer" or "tagger"
  args,       \* each call's arguments
  request,    \* the zdg-save-sequence message of a renderer call
  metadata,   \* updateSessionMetadata's local metadata object
  frameResult,\* the handler's frameResult
  saveResult, \* the handler's reply to the renderer
  result,     \* what addSequence returned
  fault,      \* history: the file-system call of the call that failed
  lineOf,     \* history: the index of the log line the call appended
  overlapped, \* history: two appendToSessionFile executions overlapped
  readFailed, \* history: a read of an existing metadata file failed
  failed,     \* history: an appendToSessionFile call returned success: false
  started,    \* history: the number of addSequence calls made so far
  pureCall    \* a call of a pure function: its arguments and what it returned

vars == <<now, dirs, logFiles, metaFiles, frameFiles, pc, impl, args, request,
          metadata, frameResult, saveResult, result, fault, lineOf, overlapped,
          readFailed, failed, started, pureCall>>

histVars == <<overlapped, readFailed, failed, started>>

fsVars == <<dirs, logFiles, metaFiles, frameFiles>>

AppendPcs == {"ensureDirs", "appendFile", "readMetadata", "writeMetadata"}

FramePcs == {"frameMkdir", "frameWrite"}

NoPureCall == [op |-> "none"]

InitSystem ==
  /\ now = 0
  /\ dirs = {}
  /\ logFiles = <<>>
  /\ metaFiles = <<>>
  /\ frameFiles = <<>>
  /\ pc = [c \in Calls |-> "idle"]
  /\ impl = [c \in Calls |-> "none"]
  /\ args = [c \in Calls |-> Undefined]
  /\ request = [c \in Calls |-> Undefined]
  /\ metadata = [c \in Calls |-> Undefined]
  /\ frameResult = [c \in Calls |-> Undefined]
  /\ saveResult = [c \in Calls |-> Undefined]
  /\ result = [c \in Calls |-> Undefined]
  /\ fault = [c \in Calls |-> "none"]
  /\ lineOf = [c \in Calls |-> 0]
  /\ overlapped = FALSE
  /\ readFailed = FALSE
  /\ failed = FALSE
  /\ started = 0

Init == InitSystem /\ pureCall = NoPureCall

\* the values a Date.now() read may return
Clock == now..MaxClock

SessionPathOf(c) == Val(request[c]).sessionPath

SessionDirOf(c) == Dirname(SessionPathOf(c))

LogFileOf(c) == Resolve(SessionPathOf(c))

MetadataPathOf(c) == Resolve(Join(SessionDirOf(c), <<"metadata.json">>))

ReadFile(files, path) == IF path \in DOMAIN files THEN Some(files[path]) ELSE Undefined

WriteFile(files, path, content) ==
  [q \in DOMAIN files \cup {path} |-> IF q = path THEN content ELSE files[q]]


\* a variant that writes the file anew, as fs.writeFile does
OverwriteFile(content, data) == <<data>>

\* fs.appendFile: the content of the file after data is appended to it
AppendToFile(content, data) == Append(content, data)


\* loadSessionMetadata(sessionDir); readOk tells whether fs.readFile and
\* JSON.parse of an existing file go through
loadSessionMetadata(sessionDir, readOk) ==
  LET metadataPath == Resolve(Join(sessionDir, <<"metadata.json">>))
      metadataFile == ReadFile(metaFiles, metadataPath)
  IN IF metadataFile # Undefined /\ readOk
     THEN [success |-> TRUE, code |-> "", data |-> Some(JsonParseMetadata(Val(metadataFile)))]
     ELSE [success |-> FALSE, code |-> "METADATA_LOAD_ERROR", data |-> Undefined]

\* loadSessionSequences(sessionPath): the lines of the log, parsed in file order
loadSessionSequences(sessionPath) ==
  LET sequencesFile == Resolve(Join(sessionPath, <<"sequences.jsonl">>))
      fileContent == ReadFile(logFiles, sequencesFile)
  IN IF fileContent # Undefined
     THEN [success |-> TRUE, code |-> "",
           sequences |-> [i \in 1..Len(Val(fileContent)) |->
                            JsonParseLine(Val(fileContent)[i])]]
     ELSE [success |-> FALSE, code |-> "SEQUENCES_LOAD_ERROR", sequences |-> <<>>]


\* ----------------------------------------------------------------- actions

InFlight == {c \in Calls : pc[c] \notin {"idle", "done"}}

\* either each caller makes one call, the calls starting in the order of their
\* numbers and overlapping at will, or (sequential) one caller makes MaxSeqCalls
\* calls, awaiting each before it makes the next
MayStart(c, sequential) ==
  IF sequential
  THEN c = 1 /\ pc[c] \in {"idle", "done"} /\ started < MaxSeqCalls
  ELSE pc[c] = "idle" /\ (IF c = 1 THEN TRUE ELSE pc[c - 1] # "idle")

\* a call starts: its caller has dropped what the call before it left
Begin(c, kind, a) ==
  /\ impl' = [impl EXCEPT ![c] = kind]
  /\ args' = [args EXCEPT ![c] = Some(a)]
  /\ metadata' = [metadata EXCEPT ![c] = Undefined]
  /\ frameResult' = [frameResult EXCEPT ![c] = Undefined]
  /\ saveResult' = [saveResult EXCEPT ![c] = Undefined]
  /\ fault' = [fault EXCEPT ![c] = "none"]
  /\ lineOf' = [lineOf EXCEPT ![c] = 0]
  /\ started' = started + 1

\* tagger.js addSequence: synchronous, it touches no file
TaggerAddSequenceCall(c, sequential) ==
  /\ MayStart(c, sequential)
  /\ \E a \in CallInputs, t \in Clock, tId \in Clock, tRef \in Clock,
        randomPart \in RandomSuffixes :
       LET valid == validateInputs(a.session, a.sequence, a.poses, a.tag,
                                   a.frame, a.options).isValid
           withFrame == a.options.saveFrame /\ ~FrameFalsy(a.frame)
       IN /\ IF valid THEN t <= tId /\ tId <= tRef ELSE t = now /\ tId = now /\ tRef = now
          /\ valid /\ ~withFrame => tRef = tId
          /\ now' = tRef
          /\ Begin(c, "tagger", a)
          /\ request' = [request EXCEPT ![c] = Undefined]
          /\ result' = [result EXCEPT
                          ![c] = Some(TaggerAddSequence(a, t, tId, tRef, randomPart))]
          /\ pc' = [pc EXCEPT ![c] = "done"]
  /\ UNCHANGED <<fsVars, overlapped, readFailed, failed, pureCall>>

\* renderer.js addSequence up to the await of ipcRenderer.invoke; with pc at
\* "ensureDirs" the zdg-save-sequence message is sent and the handler of
\* electron.js has called, or will call, appendToSessionFile
RendererAddSequenceCall(c, sequential) ==
  /\ MayStart(c, sequential)
  /\ \E a \in CallInputs, t \in Clock, tId \in Clock, tRef \in Clock,
        randomPart \in RandomSuffixes :
       LET validationResult == validateInputs(a.session, a.sequence, a.poses, a.tag,
                                              a.frame, a.options)
           withFrame == a.options.saveFrame /\ ~FrameFalsy(a.frame)
       IN /\ Begin(c, "renderer", a)
          /\ IF Rejected(validationResult)
             THEN /\ now' = now
                  /\ t = now /\ tId = now /\ tRef = now
                  /\ result' = [result EXCEPT
                       ![c] = Some(Failure("VALIDATION_ERROR", validationResult.error))]
                  /\ pc' = [pc EXCEPT ![c] = "done"]
                  /\ request' = [request EXCEPT ![c] = Undefined]
                  /\ UNCHANGED overlapped
             ELSE /\ tId <= t /\ t <= tRef
                  /\ ~withFrame => tRef = t
                  /\ now' = tRef
                  /\ request' = [request EXCEPT
                       ![c] = Some(RendererSaveRequest(a, t, tId, tRef, randomPart))]
                  /\ pc' = [pc EXCEPT ![c] = "ensureDirs"]
                  /\ overlapped' =
                       (overlapped \/ \E d \in Calls : d # c /\ pc[d] \in AppendPcs)
                  /\ result' = [result EXCEPT ![c] = Undefined]
  /\ UNCHANGED <<fsVars, readFailed, failed, pureCall>>

\* the handler returns reply, and renderer.js addSequence, resumed with it,
\* returns to its caller
Return(c, reply) ==
  /\ saveResult' = [saveResult EXCEPT ![c] = Some(reply)]
  /\ result' = [result EXCEPT ![c] = Some(RendererResult(Val(request[c]), reply))]
  /\ pc' = [pc EXCEPT ![c] = "done"]

\* appendToSessionFile's catch, then the handler's return of saveResult
AppendFailed(c, step) ==
  /\ Return(c, Failure("FILE_WRITE_ERROR", step \o " failed"))
  /\ fault' = [fault EXCEPT ![c] = step]
  /\ failed' = TRUE

\* ensureDirectoryStructure: fs.mkdir of the session directory, then of its
\* frames subdirectory
EnsureDirectoryStructure(c) ==
  /\ pc[c] = "ensureDirs"
  /\ \/ /\ dirs' = dirs \cup MkdirRecursive(Join(SessionDirOf(c), <<"frames">>))
        /\ pc' = [pc EXCEPT ![c] = "appendFile"]
        /\ UNCHANGED <<saveResult, result, fault, failed>>
     \/ /\ AppendFailed(c, "mkdir")
        /\ dirs' \in {dirs, dirs \cup MkdirRecursive(SessionDirOf(c))}
  /\ UNCHANGED <<now, logFiles, metaFiles, frameFiles, impl, args, request, metadata,
                 frameResult, lineOf, overlapped, readFailed, started, pureCall>>

\* fs.appendFile(sessionPath, jsonLine) resolves
AppendFileResolves(c) ==
  LET old == IF LogFileOf(c) \in DOMAIN logFiles THEN logFiles[LogFileOf(c)] ELSE <<>>
  IN /\ logFiles' = WriteFile(logFiles, LogFileOf(c),
                              AppendToFile(old, JsonLine(Val(request[c]).data)))
     /\ lineOf' = [lineOf EXCEPT ![c] = Len(old) + 1]
     /\ pc' = [pc EXCEPT ![c] = "readMetadata"]
     /\ UNCHANGED <<saveResult, result, fault, failed>>

\* a variant in which a rejected fs.appendFile has written the line all the same
AppendFileRejectsAfterWriting(c) ==
  LET old == IF LogFileOf(c) \in DOMAIN logFiles THEN logFiles[LogFileOf(c)] ELSE <<>>
  IN /\ AppendFailed(c, "appendFile")
     /\ logFiles' = WriteFile(logFiles, LogFileOf(c),
                              AppendToFile(old, JsonLine(Val(request[c]).data)))
     /\ lineOf' = [lineOf EXCEPT ![c] = Len(old) + 1]

\* a variant in which the rejection of fs.appendFile is not thrown: no line is
\* written and appendToSessionFile goes on to updateSessionMetadata
AppendFileRejectsUncaught(c) ==
  /\ pc' = [pc EXCEPT ![c] = "readMetadata"]
  /\ UNCHANGED <<logFiles, lineOf, saveResult, result, fault, failed>>

\* fs.appendFile(sessionPath, jsonLine) rejects: appendToSessionFile's catch
AppendFileRejects(c) ==
  /\ AppendFailed(c, "appendFile")
  /\ UNCHANGED <<logFiles, lineOf>>

\* fs.appendFile(sessionPath, jsonLine)
AppendFile(c) ==
  /\ pc[c] = "appendFile"
  /\ AppendFileResolves(c) \/ AppendFileRejects(c)
  /\ UNCHANGED <<now, dirs, metaFiles, frameFiles, impl, args, request, metadata,
                 frameResult, overlapped, readFailed, started, pureCall>>

\* updateSessionMetadata: fs.readFile and JSON.parse, or the catch that creates
\* fresh metadata, then the update of the object up to the await of fs.writeFile
ReadMetadata(c) ==
  /\ pc[c] = "readMetadata"
  /\ \E readOk \in BOOLEAN, tCreated \in Clock, tUpdated \in Clock :
       LET file == ReadFile(metaFiles, MetadataPathOf(c))
           sequenceData == Val(request[c]).data
           loaded == IF file # Undefined /\ readOk
                     THEN JsonParseMetadata(Val(file))
                     ELSE createSessionMetadata(sequenceData.session, tCreated, tCreated)
       IN /\ file = Undefined => readOk
          /\ IF file # Undefined /\ readOk
             THEN tCreated = now
             ELSE tCreated <= tUpdated
          /\ now' = tUpdated
          /\ metadata' = [metadata EXCEPT
                            ![c] = Some(UpdatedMetadata(loaded, sequenceData, tUpdated))]
          /\ readFailed' = (readFailed \/ ~readOk)
  /\ pc' = [pc EXCEPT ![c] = "writeMetadata"]
  /\ UNCHANGED <<fsVars, impl, args, request, frameResult, saveResult, result, fault,
                 lineOf, overlapped, failed, started, pureCall>>

\* the handler's reply once appendToSessionFile succeeded
HandlerReply(c, frameOk) ==
  LET req == Val(request[c])
  IN [success |-> TRUE, code |-> "", error |-> "",
      data |-> Some([sequenceId |-> req.data.id,
                     sessionPath |-> req.sessionPath,
                     frameReference |-> IF frameOk THEN req.frameReference ELSE Undefined,
                     timestamp |-> req.data.timestamp]),
      persistence |-> Undefined]

\* if (frameData && frameReference)
HandlerSavesFrame(c) ==
  LET req == Val(request[c])
  IN /\ req.frameData # Undefined
     /\ ~FrameFalsy(Val(req.frameData))
     /\ req.frameReference # Undefined

\* a variant that reads the metadata file again when it writes: the read, the
\* update and the write are one step
MetadataToWriteFromFile(c) ==
  LET file == ReadFile(metaFiles, MetadataPathOf(c))
      sequenceData == Val(request[c]).data
      updated_at == Val(metadata[c]).updated_at
      loaded == IF file # Undefined THEN JsonParseMetadata(Val(file))
                ELSE createSessionMetadata(sequenceData.session, updated_at, updated_at)
  IN JsonStringifyMetadata(UpdatedMetadata(loaded, sequenceData, updated_at))

\* JSON.stringify(metadata, null, 2) of the object updated since the read
MetadataToWrite(c) == JsonStringifyMetadata(Val(metadata[c]))

\* fs.writeFile(metadataPath, ...) resolves: appendToSessionFile returns
\* success and the handler goes on to the frame
WriteMetadataResolves(c) ==
  /\ metaFiles' = WriteFile(metaFiles, MetadataPathOf(c), MetadataToWrite(c))
  /\ IF HandlerSavesFrame(c)
     THEN IF FrameDataMatches(Val(Val(request[c]).frameData))
          THEN /\ pc' = [pc EXCEPT ![c] = "frameMkdir"]
               /\ UNCHANGED <<saveResult, result, frameResult>>
          ELSE /\ Return(c, HandlerReply(c, FALSE))
               /\ frameResult' = [frameResult EXCEPT
                    ![c] = Some(Failure("IMAGE_SAVE_ERROR", "Invalid image data format"))]
     ELSE /\ Return(c, HandlerReply(c, TRUE))
          /\ UNCHANGED frameResult
  /\ UNCHANGED <<fault, failed>>

\* a variant in which a rejected fs.writeFile has replaced the file all the same
WriteMetadataRejectsAfterWriting(c) ==
  /\ AppendFailed(c, "writeMetadata")
  /\ metaFiles' = WriteFile(metaFiles, MetadataPathOf(c), MetadataToWrite(c))
  /\ UNCHANGED frameResult

\* fs.writeFile(metadataPath, ...) rejects: appendToSessionFile's catch
WriteMetadataRejects(c) ==
  /\ AppendFailed(c, "writeMetadata")
  /\ UNCHANGED <<metaFiles, frameResult>>

\* updateSessionMetadata: fs.writeFile(metadataPath, JSON.stringify(metadata))
WriteMetadata(c) ==
  /\ pc[c] = "writeMetadata"
  /\ WriteMetadataResolves(c) \/ WriteMetadataRejects(c)
  /\ UNCHANGED <<now, dirs, logFiles, frameFiles, impl, args, request, metadata,
                 lineOf, overlapped, readFailed, started, pureCall>>

\* a variant in which the handler returns the frame's failure to the renderer
FrameFailedReturnsFailure(c, step) ==
  /\ frameResult' = [frameResult EXCEPT
                       ![c] = Some(Failure("IMAGE_SAVE_ERROR", step \o " failed"))]
  /\ Return(c, Failure("IMAGE_SAVE_ERROR", step \o " failed"))
  /\ fault' = [fault EXCEPT ![c] = step]

\* saveFrameImage's catch, then the handler's return
FrameFailed(c, step) ==
  /\ frameResult' = [frameResult EXCEPT
                       ![c] = Some(Failure("IMAGE_SAVE_ERROR", step \o " failed"))]
  /\ Return(c, HandlerReply(c, FALSE))
  /\ fault' = [fault EXCEPT ![c] = step]

\* saveFrameImage: fs.mkdir(frameDir, { recursive: true })
FrameMkdir(c) ==
  /\ pc[c] = "frameMkdir"
  /\ \/ /\ dirs' = dirs \cup
                     MkdirRecursive(Dirname(FramePath(Val(Val(request[c]).frameReference))))
        /\ pc' = [pc EXCEPT ![c] = "frameWrite"]
        /\ UNCHANGED <<saveResult, result, frameResult, fault>>
     \/ /\ FrameFailed(c, "frameMkdir")
        /\ UNCHANGED dirs
  /\ UNCHANGED <<now, logFiles, metaFiles, frameFiles, impl, args, request, metadata,
                 lineOf, histVars, pureCall>>

\* saveFrameImage: fs.writeFile(framePath, imageBuffer), then the handler's return
FrameWrite(c) ==
  /\ pc[c] = "frameWrite"
  /\ \/ /\ frameFiles' = WriteFile(frameFiles,
                                   FramePath(Val(Val(request[c]).frameReference)),
                                   Val(Val(request[c]).frameData))
        /\ frameResult' = [frameResult EXCEPT
                             ![c] = Some([success |-> TRUE, code |-> "", error |-> "",
                                          data |-> Undefined, persistence |-> Undefined])]
        /\ Return(c, HandlerReply(c, TRUE))
        /\ UNCHANGED fault
     \/ /\ FrameFailed(c, "frameWrite")
        /\ UNCHANGED frameFiles
  /\ UNCHANGED <<now, dirs, logFiles, metaFiles, impl, args, request, metadata,
                 lineOf, histVars, pureCall>>

Next ==
  \E c \in Calls :
    \/ TaggerAddSequenceCall(c, FALSE)
    \/ RendererAddSequenceCall(c, FALSE)
    \/ EnsureDirectoryStructure(c)
    \/ AppendFile(c)
    \/ ReadMetadata(c)
    \/ WriteMetadata(c)
    \/ FrameMkdir(c)
    \/ FrameWrite(c)

Spec == Init /\ [][Next]_vars

NextSeq ==
  \E c \in Calls :
    \/ TaggerAddSequenceCall(c, TRUE)
    \/ RendererAddSequenceCall(c, TRUE)
    \/ EnsureDirectoryStructure(c)
    \/ AppendFile(c)
    \/ ReadMetadata(c)
    \/ WriteMetadata(c)
    \/ FrameMkdir(c)
    \/ FrameWrite(c)

\* the system when every caller awaits its call before the next one starts
SeqSpec == Init /\ [][NextSeq]_vars

\* ------------------------------------------- the normalizer, called alone

systemVars == <<now, dirs, logFiles, metaFiles, frameFiles, pc, impl, args, request,
                metadata, frameResult, saveResult, result, fault, lineOf, overlapped,
                readFailed, failed, started>>

NormParts == {<<"nose">>, <<"leftEar">>, <<"rightAnkle">>, <<"leftPinky">>}

NormPositions == {[x |-> 32004, y |-> 24005], [x |-> 100000, y |-> 70000]}

NormScores == {Undefined, Some(2000), Some(9000)}

NormKeypoints ==
  {[isObject |-> TRUE, part |-> p, position |-> Some(xy), score |-> sc,
    confidence |-> Undefined] : p \in NormParts, xy \in NormPositions, sc \in NormScores}

\* the keypoint arrays of 1 to MaxKeypoints keypoints
NormKeypointArrays ==
  UNION {[1..n -> NormKeypoints] : n \in 1..MaxKeypoints}

\* pose.boundingBox: absent, or { x: 1, y: 1, width: 5, height: 5 }
NormBoundingBoxes ==
  {Undefined,
   Some([x |-> Some(10000), y |-> Some(10000), minX |-> Undefined, minY |-> Undefined,
         width |-> Some(50000), height |-> Some(50000)])}

NormPoses ==
  {[isObject |-> TRUE, keypoints |-> Some(kps), score |-> Some(8500),
    confidence |-> Undefined, timestamp |-> Undefined, boundingBox |-> bb] :
     kps \in NormKeypointArrays, bb \in NormBoundingBoxes}

NormOptions ==
  {[saveFrame |-> FALSE, normalizeScale |-> ns, includeMetadata |-> TRUE,
    dataPath |-> Undefined, confidenceThreshold |-> th] :
     ns \in BOOLEAN, th \in {Undefined, Some(0), Some(5000)}}

InitNorm ==
  /\ InitSystem
  /\ \E pose \in NormPoses, options \in NormOptions :
       /\ validateSinglePose(pose).isValid
       /\ pureCall = [op |-> "normalizeSinglePose", pose |-> pose, frameIndex |-> 0,
                      options |-> options, out |-> Undefined]

\* normalizeSinglePose(pose, frameIndex, options) returns
NormalizeSinglePoseCall ==
  /\ pureCall.op = "normalizeSinglePose"
  /\ pureCall.out = Undefined
  /\ pureCall' = [pureCall EXCEPT
                    !.out = Some(normalizeSinglePose(pureCall.pose, pureCall.frameIndex,
                                                     pureCall.options))]
  /\ UNCHANGED systemVars

NextNorm == NormalizeSinglePoseCall

NormSpec == InitNorm /\ [][NextNorm]_vars


\* ---------------------------------------------- normalizePoses, called alone

\* pose.timestamp: absent, 0, 40 or 100 ms
PoseTimestamps == {Undefined, Some(0), Some(40), Some(100)}

TimedPoses ==
  {Pose(<<Keypoint(<<"nose">>, 3200000, 2400000, Some(9000))>>, ts) :
     ts \in PoseTimestamps}

\* the pose arrays of 1 to MaxPoseSeq poses
TimedPoseArrays == UNION {[1..n -> TimedPoses] : n \in 1..MaxPoseSeq}

InitNormalizePoses ==
  /\ InitSystem
  /\ \E rawPoses \in TimedPoseArrays, ns \in BOOLEAN :
       /\ validatePoses(rawPoses).isValid
       /\ pureCall = [op |-> "normalizePoses", rawPoses |-> rawPoses,
                      options |-> [Options(FALSE) EXCEPT !.normalizeScale = ns],
                      out |-> Undefined]

\* normalizePoses(rawPoses, options) returns
NormalizePosesCall ==
  /\ pureCall.op = "normalizePoses"
  /\ pureCall.out = Undefined
  /\ pureCall' = [pureCall EXCEPT
                    !.out = Some(normalizePoses(pureCall.rawPoses, pureCall.options))]
  /\ UNCHANGED systemVars

NextNormalizePoses == NormalizePosesCall

NormalizePosesSpec == InitNormalizePoses /\ [][NextNormalizePoses]_vars


\* ------------------------------------------------ addSequence up to the save

\* ''
EmptyFrame ==
  [kind |-> "string", empty |-> TRUE, dataUrl |-> FALSE, imageType |-> "",
   dataLen |-> 0, dataChars |-> "base64", padding |-> 0]

\* options.dataPath: absent, or './store'
DataPaths == {Undefined, Some(<< <<".">>, <<"store">> >>)}

\* the arguments of the addSequence calls looked at up to the save
EntryInputs ==
  {[Args(session, poses, <<"wave">>, frame, saveFrame) EXCEPT !.options.dataPath = dp] :
     session \in {<<"a">>, <<"A">>}, poses \in TimedPoseArrays,
     frame \in {NoFrame, EmptyFrame, JpegFrame}, saveFrame \in BOOLEAN,
     dp \in DataPaths}

InitAddSequence ==
  /\ InitSystem
  /\ \E a \in EntryInputs, t \in 0..MaxClock, kind \in {"tagger", "renderer"} :
       pureCall = [op |-> "addSequence", impl |-> kind, a |-> a, t |-> t,
                   randomPart |-> <<"a", "b", "0", "1">>, out |-> Undefined]

\* tagger.js addSequence returns
TaggerAddSequenceAlone ==
  /\ pureCall.op = "addSequence"
  /\ pureCall.impl = "tagger"
  /\ pureCall.out = Undefined
  /\ pureCall' = [pureCall EXCEPT
       !.out = Some([result |-> Some(TaggerAddSequence(pureCall.a, pureCall.t, pureCall.t,
                                                       pureCall.t, pureCall.randomPart)),
                     request |-> Undefined])]
  /\ UNCHANGED systemVars

\* renderer.js addSequence returns VALIDATION_ERROR, or reaches the invoke with
\* the zdg-save-sequence message built
RendererAddSequenceAlone ==
  /\ pureCall.op = "addSequence"
  /\ pureCall.impl = "renderer"
  /\ pureCall.out = Undefined
  /\ LET a == pureCall.a
         validationResult == validateInputs(a.session, a.sequence, a.poses, a.tag,
                                            a.frame, a.options)
     IN pureCall' = [pureCall EXCEPT
          !.out = Some(IF Rejected(validationResult)
                       THEN [result |-> Some(Failure("VALIDATION_ERROR",
                                                     validationResult.error)),
                             request |-> Undefined]
                       ELSE [result |-> Undefined,
                             request |-> Some(RendererSaveRequest(
                                                a, pureCall.t, pureCall.t, pureCall.t,
                                                pureCall.randomPart))])]
  /\ UNCHANGED systemVars

NextAddSequence == TaggerAddSequenceAlone \/ RendererAddSequenceAlone

AddSequenceSpec == InitAddSequence /\ [][NextAddSequence]_vars


\* --------------------------------------------- sanitizeString, called alone

SanitizeChars == {"a", "A", "-", "_", "!"}

\* the strings of up to MaxSanitizeLen characters
ShortStrings == UNION {[1..n -> SanitizeChars] : n \in 0..MaxSanitizeLen}

\* SanitizeMaxLen - 2 letters: what follows them lies across the cut of
\* substring(0, 50)
LongPrefix == [i \in 1..(SanitizeMaxLen - 2) |-> "a"]

SanitizeInputs ==
  ShortStrings \cup {LongPrefix \o str : str \in ShortStrings} \cup NonStrings

InitSanitize ==
  /\ InitSystem
  /\ \E str \in SanitizeInputs :
       pureCall = [op |-> "sanitizeString", str |-> str, out |-> Undefined]

\* sanitizeString(str) returns, and sanitizeString of what it returned
SanitizeStringCall ==
  /\ pureCall.op = "sanitizeString"
  /\ pureCall.out = Undefined
  /\ pureCall' = [pureCall EXCEPT
       !.out = Some([once |-> sanitizeString(pureCall.str),
                     twice |-> sanitizeString(sanitizeString(pureCall.str))])]
  /\ UNCHANGED systemVars

NextSanitize == SanitizeStringCall

SanitizeSpec == InitSanitize /\ [][NextSanitize]_vars

\* ------------------------------------------- generateSequenceId, in pairs

\* the letters of a-z that occur in the ids: LowerChars and those of 'unknown'
IdLetters == LowerChars \cup {"k", "n", "o", "u"}

\* 0-9
IdDigits == {ToString(d) : d \in 0..9}

\* names of SequencePartLen + 1 characters that differ in the last one only
LongSequence(c) == [i \in 1..SequencePartLen |-> "a"] \o <<c>>

IdSessions == {<<"a">>, <<"a", "_", "b">>, JsNull}

IdSequences ==
  {<<"s">>, <<"b", "_", "s">>, <<"w">>, <<"W">>, LongSequence("b"), LongSequence("z")}

\* Date.now(): the millisecond of the call
IdTimestamps == 0..MaxClock

\* generateRandomString(4): four characters of a-z0-9
IdRandomParts == {<<"a", "b", "0", "1">>, <<"a", "b", "0", "0">>}

IdCalls ==
  [session : IdSessions, sequence : IdSequences,
   timestamp : IdTimestamps, randomPart : IdRandomParts]

InitSequenceId ==
  /\ InitSystem
  /\ pureCall \in [op : {"generateSequenceId"}, first : IdCalls, second : IdCalls,
                   out : {Undefined}]

\* two calls of generateSequenceId, each with its own clock reading and draw
GenerateSequenceIdCalls ==
  /\ pureCall.op = "generateSequenceId"
  /\ pureCall.out = Undefined
  /\ LET IdOf(c) == generateSequenceId(c.session, c.sequence, c.timestamp, c.randomPart)
     IN pureCall' = [pureCall EXCEPT
                       !.out = Some([first |-> IdOf(pureCall.first),
                                     second |-> IdOf(pureCall.second)])]
  /\ UNCHANGED systemVars

NextSequenceId == GenerateSequenceIdCalls

SequenceIdSpec == InitSequenceId /\ [][NextSequenceId]_vars

\* ------------------------------------------------- validateInputs alone

\* a truthy options value that is not an object, 5 say: it has no saveFrame
PrimitiveOptions == [Options(FALSE) EXCEPT !.isObject = FALSE]

\* a frame that is an object, not a string
ObjectFrame == [NoFrame EXCEPT !.kind = "object"]

\* 'data:image/jpeg;base64,AA!A'
NonBase64Frame == [JpegFrame EXCEPT !.dataChars = "other"]

\* 'invalid-frame-data'
PlainTextFrame == [JpegFrame EXCEPT !.dataUrl = FALSE, !.imageType = ""]

\* a data URL of dataLen base64 characters, the last padding of them '='
SizedFrame(dataLen, padding) ==
  [JpegFrame EXCEPT !.imageType = "png", !.dataLen = dataLen, !.padding = padding]

ValidateFrames ==
  {NoFrame, EmptyFrame, ObjectFrame, JpegFrame, TiffFrame, NonBase64Frame,
   PlainTextFrame,
   SizedFrame(MaxFrameBase64Len, 0), SizedFrame(MaxFrameBase64Len + 1, 0),
   SizedFrame(MaxFrameBase64Len + 3, 2), SizedFrame(MaxFrameBase64Len + 7, 0)}

ValidateSessions == {<<"a">>, <<>>, <<" ">>, <<"a", "!">>, JsNumber}

ValidateSequences == {<<"w">>, <<>>, JsNull}

ValidatePoseArrays == {<<NosePose>>, <<>>, <<NosePose, Pose(<<>>, Undefined)>>}

ValidateTags ==
  {<<"w", "a", "v", "e">>, <<>>, JsNumber, [i \in 1..(MaxTagLength + 1) |-> "a"]}

ValidateOptions == {Options(TRUE), Options(FALSE), PrimitiveOptions}

ValidateInputsArgs ==
  [session : ValidateSessions, sequence : ValidateSequences,
   poses : ValidatePoseArrays, tag : ValidateTags, frame : ValidateFrames,
   options : ValidateOptions]

InitValidateInputs ==
  /\ InitSystem
  /\ pureCall \in [op : {"validateInputs"}, a : ValidateInputsArgs, out : {Undefined}]

ValidateInputsCall ==
  /\ pureCall.op = "validateInputs"
  /\ pureCall.out = Undefined
  /\ LET a == pureCall.a
     IN pureCall' = [pureCall EXCEPT
                       !.out = Some(validateInputs(a.session, a.sequence, a.poses,
                                                   a.tag, a.frame, a.options))]
  /\ UNCHANGED systemVars

NextValidateInputs == ValidateInputsCall

ValidateInputsSpec == InitValidateInputs /\ [][NextValidateInputs]_vars

\* -------------------------------------------------- validatePoses alone

\* a keypoint of the nose with the given position and score
NoseAt(x, score) == Keypoint(<<"nose">>, x, 10000, score)

\* poses that differ in the one place validateSinglePose may object to
CheckedPoses ==
  { NosePose,
    [NosePose EXCEPT !.isObject = FALSE],
    [NosePose EXCEPT !.keypoints = Undefined],
    Pose(<<>>, Undefined),
    Pose(<<NoseAt(10000, Some(9000)), NoseAt(NaN, Some(9000)),
           NoseAt(10000, Some(One + 1))>>, Undefined),
    Pose(<<NoseAt(10000, Some(NaN))>>, Undefined),
    [NosePose EXCEPT !.score = Some(One + 1)],
    [NosePose EXCEPT !.score = Some(NaN)],
    Pose(<<NoseAt(10000, Some(0))>>, Some(0 - 1)),
    Pose(<<NoseAt(10000, Some(One))>>, Some(0)) }

\* the arrays of at most MaxPoseSeq poses, and those of MaxPoses and MaxPoses + 1
CheckedPoseArrays ==
  UNION {[1..n -> CheckedPoses] : n \in 0..MaxPoseSeq}
    \cup {[i \in 1..n |-> NosePose] : n \in {MaxPoses, MaxPoses + 1}}

InitValidatePoses ==
  /\ InitSystem
  /\ pureCall \in [op : {"validatePoses"}, poses : CheckedPoseArrays, out : {Undefined}]

ValidatePosesCall ==
  /\ pureCall.op = "validatePoses"
  /\ pureCall.out = Undefined
  /\ pureCall' = [pureCall EXCEPT !.out = Some(validatePoses(pureCall.poses))]
  /\ UNCHANGED systemVars

NextValidatePoses == ValidatePosesCall

ValidatePosesSpec == InitValidatePoses /\ [][NextValidatePoses]_vars


\* ================================================================== claims

\* the session directories that hold a log
SessionDirs == {Dirname(p) : p \in DOMAIN logFiles}

\* the entries of the session's log, in file order
EntriesOf(sessionDir) == loadSessionSequences(sessionDir).sequences

MetadataFileOf(sessionDir) == Join(sessionDir, <<"metadata.json">>)

TotalPoses(entries) ==
  SumOver([i \in DOMAIN entries |-> Len(entries[i].poses)], DOMAIN entries)

TagCount(entries, tag) == Cardinality({i \in DOMAIN entries : entries[i].tag = tag})

\* no appendToSessionFile call is under way and none has returned a failure
AppendsSucceeded == ~failed /\ \A c \in Calls : pc[c] \notin AppendPcs

\* C1: after non-overlapping successful appends to a session that started without
\* a metadata file, total_frames is the sum of the entries' pose counts and
\* pose_distribution[t] is the number of entries tagged t, for every tag t
AggregateCorrectness ==
  AppendsSucceeded =>
    \A sessionDir \in SessionDirs :
      LET entries == EntriesOf(sessionDir)
      IN /\ MetadataFileOf(sessionDir) \in DOMAIN metaFiles
         /\ LET stats == metaFiles[MetadataFileOf(sessionDir)].statistics
            IN /\ stats.total_frames = TotalPoses(entries)
               /\ \A i \in DOMAIN entries :
                    /\ entries[i].tag \in DOMAIN stats.pose_distribution
                    /\ stats.pose_distribution[entries[i].tag]
                         = Some(TagCount(entries, entries[i].tag))

\* C2: after non-overlapping successful appends, avg_sequence_length is the mean
\* of the pose counts of the entries appended so far, rounded to the nearest
\* integer: round(total_frames / sequence_count)
RunningMean ==
  AppendsSucceeded =>
    \A sessionDir \in SessionDirs :
      /\ MetadataFileOf(sessionDir) \in DOMAIN metaFiles
      /\ LET m == metaFiles[MetadataFileOf(sessionDir)]
         IN m.statistics.avg_sequence_length
              = RoundDiv(m.statistics.total_frames, m.sequence_count)


\* ------------------------------------------------------------- C1 and C2

\* three successful appends to one session, of 2, 1 and 1 poses
ThreeAppendsReached ==
  /\ AppendsSucceeded
  /\ \E sessionDir \in SessionDirs :
       /\ [i \in 1..Len(EntriesOf(sessionDir)) |-> Len(EntriesOf(sessionDir)[i].poses)]
            = <<2, 1, 1>>
       /\ MetadataFileOf(sessionDir) \in DOMAIN metaFiles
       /\ metaFiles[MetadataFileOf(sessionDir)].sequence_count = 3


\* -------------------------------------------------------------------- C3

\* every log of the step's start is there at its end, with the same lines or
\* with one more line after them; a log the step creates holds one line
LogStepAppendsOnly ==
  /\ \A p \in DOMAIN logFiles :
       /\ p \in DOMAIN logFiles'
       /\ \/ logFiles'[p] = logFiles[p]
          \/ /\ Len(logFiles'[p]) = Len(logFiles[p]) + 1
             /\ SubSeq(logFiles'[p], 1, Len(logFiles[p])) = logFiles[p]
  /\ \A p \in DOMAIN logFiles' \ DOMAIN logFiles : Len(logFiles'[p]) = 1

\* the entry that was the k-th to be written to its log is the k-th that
\* loadSessionSequences returns
ReadOrderIsAppendOrder ==
  \A c \in Calls :
    lineOf[c] > 0 =>
      LET loaded == loadSessionSequences(SessionDirOf(c))
      IN /\ loaded.success
         /\ lineOf[c] <= Len(loaded.sequences)
         /\ loaded.sequences[lineOf[c]] = Val(request[c]).data

\* C3: the session log is append-only: every step leaves each log unchanged or
\* extends it by exactly one line at the end, never rewriting, removing or
\* reordering a line, and loadSessionSequences returns the entries in the order
\* in which their appends were written
AppendOnlyLog == [][LogStepAppendsOnly]_vars /\ []ReadOrderIsAppendOrder

\* two calls have appended different entries to the same log
TwoLinesAppended ==
  \E c, d \in Calls :
    /\ lineOf[c] = 1
    /\ lineOf[d] = 2
    /\ LogFileOf(c) = LogFileOf(d)
    /\ Val(request[c]).data # Val(request[d]).data
    /\ Len(logFiles[LogFileOf(c)]) = 2


\* -------------------------------------------------------------------- C4

\* calls c and d have both returned success for the same session, whose log
\* holds their two lines, and each read the metadata before the other wrote it
LostUpdateCase(c, d) ==
  /\ c # d
  /\ impl[c] = "renderer" /\ impl[d] = "renderer"
  /\ pc[c] = "done" /\ pc[d] = "done"
  /\ Val(result[c]).success /\ Val(result[d]).success
  /\ LogFileOf(c) = LogFileOf(d)
  /\ Len(logFiles[LogFileOf(c)]) = 2
  /\ ~readFailed
  /\ Val(metadata[c]).sequence_count = Val(metadata[d]).sequence_count

\* the metadata counts the entry of call c and nothing else
CountsOnly(m, c) ==
  LET entry == Val(request[c]).data
  IN /\ m.sequence_count = 1
     /\ m.statistics.total_frames = Len(entry.poses)
     /\ m.tags = <<entry.tag>>
     /\ DOMAIN m.statistics.pose_distribution = {entry.tag}

\* C4: when two appends to the same session interleave so that each reads the
\* metadata before the other writes it, both return success and both lines are
\* in the log, yet the final metadata counts only one of them
LostUpdate ==
  \A c, d \in Calls :
    LostUpdateCase(c, d) =>
      LET m == metaFiles[MetadataPathOf(c)]
          entries == EntriesOf(SessionDirOf(c))
      IN /\ entries[lineOf[c]] = Val(request[c]).data
         /\ entries[lineOf[d]] = Val(request[d]).data
         /\ lineOf[c] # lineOf[d]
         /\ CountsOnly(m, c) \/ CountsOnly(m, d)

\* the interleaving exists: one of the two entries is lost to the metadata
LostUpdateReached ==
  \E c, d \in Calls :
    /\ LostUpdateCase(c, d)
    /\ Val(request[c]).data.tag # Val(request[d]).data.tag
    /\ metaFiles[MetadataPathOf(c)].sequence_count = 1


\* -------------------------------------------------------------------- C5

ReturnedFileWriteError(c) ==
  /\ pc[c] = "done"
  /\ impl[c] = "renderer"
  /\ saveResult[c] # Undefined
  /\ ~Val(saveResult[c]).success
  /\ Val(saveResult[c]).code = "FILE_WRITE_ERROR"

\* the log of call c holds the line the call appended
LineInLog(c) ==
  /\ lineOf[c] > 0
  /\ LogFileOf(c) \in DOMAIN logFiles
  /\ lineOf[c] <= Len(logFiles[LogFileOf(c)])
  /\ logFiles[LogFileOf(c)][lineOf[c]] = JsonLine(Val(request[c]).data)

\* C5 as stated: whenever appendToSessionFile returns FILE_WRITE_ERROR, the
\* session log holds no line for that entry
FileWriteErrorLeavesNoLine ==
  \A c \in Calls : ReturnedFileWriteError(c) => lineOf[c] = 0

\* C5: when appendToSessionFile returns FILE_WRITE_ERROR because the directories
\* could not be made or the log write failed, the log holds no line for the
\* entry; when it returns FILE_WRITE_ERROR because the metadata update failed,
\* the log holds the entry's line
FileWriteErrorByStep ==
  \A c \in Calls :
    ReturnedFileWriteError(c) =>
      /\ fault[c] \in {"mkdir", "appendFile", "writeMetadata"}
      /\ fault[c] \in {"mkdir", "appendFile"} => lineOf[c] = 0
      /\ fault[c] = "writeMetadata" => LineInLog(c)

\* both kinds of FILE_WRITE_ERROR have happened
FileWriteErrorsReached ==
  \E c, d \in Calls :
    /\ ReturnedFileWriteError(c) /\ fault[c] = "appendFile"
    /\ ReturnedFileWriteError(d) /\ fault[d] = "writeMetadata" /\ LineInLog(d)


\* -------------------------------------------------------------------- C6

\* the step is call c's failed metadata write
MetadataWriteFails(c) == pc[c] = "writeMetadata" /\ fault'[c] = "writeMetadata"

\* the step is call c's failed log write
LogWriteFails(c) == pc[c] = "appendFile" /\ fault'[c] = "appendFile"

\* the step is call c's metadata write, and it succeeds
MetadataWriteSucceeds(c) ==
  pc[c] = "writeMetadata" /\ pc'[c] # "writeMetadata" /\ fault'[c] = "none"

FailedWritesChangeNothing ==
  /\ \A c \in Calls :
       /\ MetadataWriteFails(c) =>
            /\ LineInLog(c)
            /\ logFiles' = logFiles
            /\ metaFiles' = metaFiles
       /\ LogWriteFails(c) => logFiles' = logFiles /\ metaFiles' = metaFiles
  /\ metaFiles' # metaFiles => \E c \in Calls : MetadataWriteSucceeds(c)

SequenceCountOf(sessionDir) ==
  IF MetadataFileOf(sessionDir) \in DOMAIN metaFiles
  THEN metaFiles[MetadataFileOf(sessionDir)].sequence_count
  ELSE 0

\* call c's metadata write failed; no other metadata write did, no read of
\* existing metadata failed and no two appends overlapped
OnlyMetadataWriteFailed(c) ==
  /\ pc[c] = "done"
  /\ fault[c] = "writeMetadata"
  /\ \A d \in Calls \ {c} : fault[d] # "writeMetadata" /\ pc[d] \notin AppendPcs
  /\ ~overlapped
  /\ ~readFailed

LogAheadOfMetadata ==
  \A c \in Calls :
    OnlyMetadataWriteFailed(c) =>
      /\ LineInLog(c)
      /\ Len(EntriesOf(Resolve(SessionDirOf(c))))
           = SequenceCountOf(Resolve(SessionDirOf(c))) + 1

\* C6: a metadata update that fails after the log write succeeded leaves the new
\* line in the log and the metadata file as it was, so the log is ahead of the
\* metadata by that entry; a failed log write leaves the log and the metadata
\* file unchanged
FailedWriteEffects == [][FailedWritesChangeNothing]_vars /\ []LogAheadOfMetadata

\* a metadata write has failed for a session whose metadata counts an earlier
\* entry: the log holds two lines and the metadata counts one
LogAheadReached ==
  \E c \in Calls :
    /\ OnlyMetadataWriteFailed(c)
    /\ lineOf[c] = 2
    /\ SequenceCountOf(Resolve(SessionDirOf(c))) = 1


\* -------------------------------------------------------------------- C7

\* the directories of the sessions whose metadata.json does not exist
SessionsWithoutMetadata ==
  {dir \in dirs : /\ Len(dir) = 3
                  /\ Join(dir, <<"metadata.json">>) \notin DOMAIN metaFiles}

\* C7 as stated: loadSessionMetadata of a session whose metadata.json does not
\* exist returns a successful result that carries fresh metadata:
\* sequence_count 0, no tags, total_frames 0
MissingMetadataLoadsFresh ==
  \A dir \in SessionsWithoutMetadata :
    LET loaded == loadSessionMetadata(dir, TRUE)
    IN /\ loaded.success
       /\ loaded.data # Undefined
       /\ Val(loaded.data).sequence_count = 0
       /\ Val(loaded.data).tags = <<>>
       /\ Val(loaded.data).statistics.total_frames = 0


\* -------------------------------------------------------------------- C8

AppendFaults == {"mkdir", "appendFile", "writeMetadata"}

FrameFaults == {"frameMkdir", "frameWrite"}

\* saveFrameImage is called only once appendToSessionFile returned success
FrameOnlyAfterAppend ==
  \A c \in Calls :
    (pc[c] \in FramePcs \/ frameResult[c] # Undefined) =>
      /\ fault[c] \notin AppendFaults
      /\ LineInLog(c)
      /\ MetadataPathOf(c) \in DOMAIN metaFiles

NoFrameAfterFailedAppend ==
  \A c \in Calls :
    (pc[c] = "done" /\ fault[c] \in AppendFaults) =>
      /\ frameResult[c] = Undefined
      /\ ~Val(saveResult[c]).success

FrameFailureKeepsEntry ==
  \A c \in Calls :
    (pc[c] = "done" /\ fault[c] \in FrameFaults) =>
      /\ Val(saveResult[c]).success
      /\ ~Val(frameResult[c]).success
      /\ LineInLog(c)
      /\ MetadataPathOf(c) \in DOMAIN metaFiles

\* a frame step changes neither a log nor a metadata file
FrameStepRollsNothingBack ==
  \A c \in Calls :
    (pc[c] \in FramePcs /\ pc'[c] # pc[c]) =>
      logFiles' = logFiles /\ metaFiles' = metaFiles

\* C8: the handler attempts the frame write only after the append returned
\* success; when the append fails no frame write is attempted; when the frame
\* write fails the appended line and the metadata update are kept and the
\* handler still returns success: true
FrameAfterAppend ==
  /\ [](FrameOnlyAfterAppend /\ NoFrameAfterFailedAppend /\ FrameFailureKeepsEntry)
  /\ [][FrameStepRollsNothingBack]_vars

\* a frame write has failed after a successful append
FrameFailureReached ==
  \E c \in Calls :
    /\ pc[c] = "done"
    /\ fault[c] = "frameWrite"
    /\ Val(saveResult[c]).success
    /\ LineInLog(c)
    /\ metaFiles[MetadataPathOf(c)].sequence_count = 1


\* -------------------------------------------------------------------- C9

ArgsRejected(a) ==
  ~validateInputs(a.session, a.sequence, a.poses, a.tag, a.frame, a.options).isValid

\* a call whose input validateInputs rejects has returned VALIDATION_ERROR
\* without data and has sent, appended and written nothing
RejectedCallDidNothing ==
  \A c \in Calls :
    (impl[c] # "none" /\ ArgsRejected(Val(args[c]))) =>
      /\ pc[c] = "done"
      /\ ~Val(result[c]).success
      /\ Val(result[c]).code = "VALIDATION_ERROR"
      /\ Val(result[c]).data = Undefined
      /\ Val(result[c]).persistence = Undefined
      /\ request[c] = Undefined
      /\ saveResult[c] = Undefined
      /\ lineOf[c] = 0
      /\ metadata[c] = Undefined
      /\ frameResult[c] = Undefined

\* the step in which a rejected call is made changes no file and no directory
RejectedCallStep ==
  \A c \in Calls :
    (args'[c] # args[c] /\ args'[c] # Undefined /\ ArgsRejected(Val(args'[c]))) =>
      UNCHANGED fsVars

\* C9: when validateInputs rejects the input, addSequence of tagger.js and of
\* renderer.js returns success: false with code VALIDATION_ERROR and no data,
\* and attempts no side effect: no save request, no log line, no metadata
\* write, no frame write
ValidationRejects == []RejectedCallDidNothing /\ [][RejectedCallStep]_vars

\* both implementations have rejected an input
BothRejected ==
  \E c, d \in Calls :
    /\ impl[c] = "renderer" /\ impl[d] = "tagger"
    /\ ArgsRejected(Val(args[c])) /\ ArgsRejected(Val(args[d]))
    /\ Val(result[c]).code = "VALIDATION_ERROR"
    /\ Val(result[d]).code = "VALIDATION_ERROR"


\* ------------------------------------------------------------------- C10

CanonicalParts == {<<keypointOrder[i]>> : i \in 1..Len(keypointOrder)}

IsPlaceholder(kp) ==
  /\ kp.position = [x |-> 0, y |-> 0]
  /\ kp.confidence = 0
  /\ kp.visible = FALSE

ThresholdInForce(options) ==
  IF options.confidenceThreshold # Undefined
  THEN Val(options.confidenceThreshold)
  ELSE DefaultConfidenceThreshold

\* C11: every keypoint of a normalized pose is visible exactly when its
\* confidence is at least the threshold in force, which is
\* options.confidenceThreshold when supplied (0 included) and 0.3 otherwise
VisibleByThreshold ==
  (pureCall.op = "normalizeSinglePose" /\ pureCall.out # Undefined) =>
    LET output == Val(pureCall.out).keypoints
    IN \A i \in 1..Len(output) :
         output[i].visible
           <=> output[i].confidence >= ThresholdInForce(pureCall.options)


\* ------------------------------------------------------------------- C12

\* C12: the normalized pose at index i has the input pose's timestamp whenever
\* the input pose carries one (0 included), and i * 33 only when it has none
TimestampsKept ==
  (pureCall.op = "normalizePoses" /\ pureCall.out # Undefined) =>
    LET input == pureCall.rawPoses
        output == Val(pureCall.out)
    IN /\ Len(output) = Len(input)
       /\ \A i \in 1..Len(input) :
            output[i].timestamp =
              IF input[i].timestamp # Undefined
              THEN Val(input[i].timestamp)
              ELSE (i - 1) * FrameIntervalMs


\* ------------------------------------------------------------------- C13

\* the entries a successful addSequence has built: the data tagger.js returns,
\* the data renderer.js sends to be appended
BuiltEntries ==
  IF pureCall.op = "addSequence" /\ pureCall.out # Undefined
  THEN LET out == Val(pureCall.out)
       IN (IF out.result # Undefined /\ Val(out.result).success
           THEN {Val(Val(out.result).data)} ELSE {})
          \cup (IF out.request # Undefined THEN {Val(out.request).data} ELSE {})
  ELSE {}

\* C13: every entry of a successful addSequence has at least one pose and a
\* duration that is >= 0 and is the last pose's timestamp minus the first's, or
\* 0 for a single pose
DurationOfEntry ==
  \A entry \in BuiltEntries :
    /\ Len(entry.poses) >= 1
    /\ entry.duration >= 0
    /\ entry.duration = IF Len(entry.poses) < 2 THEN 0
                        ELSE entry.poses[Len(entry.poses)].timestamp
                               - entry.poses[1].timestamp


\* ------------------------------------------------------------------- C14

\* C14: sanitizeString is idempotent: sanitizeString(sanitizeString(s)) equals
\* sanitizeString(s) for every string s
SanitizeIdempotent ==
  (pureCall.op = "sanitizeString" /\ pureCall.out # Undefined
     /\ IsString(pureCall.str)) =>
    Val(pureCall.out).twice = Val(pureCall.out).once


\* ------------------------------------------------------------------- C15

\* {dataPath}/sessions/{sanitize(session)}/sequences.jsonl
SanitizedSessionPath(session, dataPath) ==
  dataPath \o << <<"sessions">>, sanitizeString(session), <<"sequences.jsonl">> >>

DataPathOf(a) ==
  IF a.options.dataPath = Undefined THEN DefaultDataPath ELSE Val(a.options.dataPath)

\* the session log paths a successful addSequence has produced
BuiltSessionPaths ==
  IF pureCall.op = "addSequence" /\ pureCall.out # Undefined
  THEN LET out == Val(pureCall.out)
       IN (IF out.result # Undefined /\ Val(out.result).success
           THEN {Val(Val(out.result).persistence).sessionPath} ELSE {})
          \cup (IF out.request # Undefined THEN {Val(out.request).sessionPath} ELSE {})
  ELSE {}

\* C15: for every session name that passes validation and every dataPath, the
\* log path of tagger.js, of renderer.js and of the generateSessionPath helper
\* is {dataPath}/sessions/{sanitize(session)}/sequences.jsonl, whose directory
\* is the one generateFrameReference puts the session's frames under
SessionPathSanitized ==
  \A sessionPath \in BuiltSessionPaths :
    LET a == pureCall.a
        frameReference == generateFrameReference(a.session, a.sequence,
                                                 DataPathOf(a), pureCall.t)
    IN /\ sessionPath = SanitizedSessionPath(a.session, DataPathOf(a))
       /\ generateSessionPath(a.session, DataPathOf(a))
            = SanitizedSessionPath(a.session, DataPathOf(a))
       /\ EncodingGenerateSessionPath(a.session)
            = SanitizedSessionPath(a.session, DefaultDataPath)
       /\ Dirname(sessionPath) = Dirname(Dirname(frameReference))

\* ------------------------------------------------------------------ C16
SessionPrefix(c) == Substring(sanitizeString(c.session), SessionPartLen)

SequencePrefix(c) == Substring(sanitizeString(c.sequence), SequencePartLen)

MatchesIdPattern(id) ==
  /\ id # <<>>
  /\ \A i \in 1..Len(id) : id[i] \in IdLetters \cup IdDigits \cup {"_", "-"}

JoinedPrefix(c) == SessionPrefix(c) \o <<"_">> \o SequencePrefix(c)

ValidatedFields == {"session", "sequence", "poses", "tag", "frame", "options"}

\* the messages of one field's own check
FieldErrors(field, a) ==
  CASE field = "session" -> SessionErrors(a.session)
    [] field = "sequence" -> SequenceErrors(a.sequence)
    [] field = "poses" -> PosesErrors(a.poses)
    [] field = "tag" -> TagErrors(a.tag)
    [] field = "frame" -> FrameErrors(a.frame, a.options)
    [] field = "options" -> OptionsErrors(a.options)

FailingFields(a) == {field \in ValidatedFields : FieldErrors(field, a) # <<>>}

ValidateInputsDone == pureCall.op = "validateInputs" /\ pureCall.out # Undefined

\* C17: validateInputs checks every field whatever the other fields are:
\* errors holds exactly one message for each failing field (four when
\* session, sequence, poses and tag are all invalid), error is the messages
\* joined by '; ' or null when there are none, and isValid is true exactly
\* when errors is empty.
ValidateInputsExhaustive ==
  ValidateInputsDone =>
    LET a == pureCall.a
        r == Val(pureCall.out)
        failing == FailingFields(a)
    IN /\ Len(r.errors) = Cardinality(failing)
       /\ \A field \in failing :
            /\ Len(FieldErrors(field, a)) = 1
            /\ \E i \in 1..Len(r.errors) : r.errors[i] = FieldErrors(field, a)[1]
       /\ {"session", "sequence", "poses", "tag"} \subseteq failing =>
            Len(r.errors) >= 4
       /\ failing = {"session", "sequence", "poses", "tag"} => Len(r.errors) = 4
       /\ r.error = (IF r.errors = <<>> THEN NullMessage
                     ELSE JoinWith(r.errors, "; "))
       /\ Len(r.errors) = 2 => r.error = r.errors[1] \o "; " \o r.errors[2]
       /\ r.isValid <=> r.errors = <<>>

\* the four fields of the test are invalid and four messages came back
FourErrorsCollected ==
  /\ ValidateInputsDone
  /\ pureCall.a.session = <<>> /\ pureCall.a.sequence = <<>>
  /\ pureCall.a.poses = <<>> /\ pureCall.a.tag = <<>>
  /\ pureCall.a.frame = NoFrame /\ pureCall.a.options = Options(FALSE)
  /\ Len(Val(pureCall.out).errors) = 4
  /\ ~Val(pureCall.out).isValid

\* ------------------------------------------------------------------ C18

\* a number of [0, 1]
InUnitInterval(x) == x # NaN /\ 0 <= x /\ x <= One

\* a keypoint as the specification describes it: a string part, a finite numeric
\* position, every supplied score and confidence in [0, 1]
KeypointAcceptable(keypoint) ==
  /\ keypoint.isObject
  /\ IsString(keypoint.part) /\ keypoint.part # <<>>
  /\ keypoint.position # Undefined
  /\ Val(keypoint.position).x # NaN /\ Val(keypoint.position).y # NaN
  /\ keypoint.score # Undefined => InUnitInterval(Val(keypoint.score))
  /\ keypoint.confidence # Undefined => InUnitInterval(Val(keypoint.confidence))

PoseAcceptable(pose) ==
  /\ pose.isObject
  /\ pose.keypoints # Undefined
  /\ Val(pose.keypoints) # <<>>
  /\ \A i \in 1..Len(Val(pose.keypoints)) : KeypointAcceptable(Val(pose.keypoints)[i])
  /\ pose.score # Undefined => InUnitInterval(Val(pose.score))
  /\ pose.confidence # Undefined => InUnitInterval(Val(pose.confidence))
  /\ pose.timestamp # Undefined =>
       (Val(pose.timestamp) # NaN /\ Val(pose.timestamp) >= 0)

\* the lowest index of a set of indices
Lowest(indices) == CHOOSE i \in indices : \A j \in indices : i <= j

\* what validateSinglePose is to report for a pose that is not acceptable:
\* its lowest unacceptable keypoint when the keypoints are what is wrong
ReportedForPose(pose) ==
  LET keypoints == Val(pose.keypoints)
      bad == {k \in 1..Len(keypoints) : ~KeypointAcceptable(keypoints[k])}
  IN IF pose.isObject /\ pose.keypoints # Undefined /\ bad # {}
     THEN "Keypoint at index " \o ToString(Lowest(bad) - 1) \o ": "
            \o validateKeypoint(keypoints[Lowest(bad)]).error
     ELSE validateSinglePose(pose).error

\* C18: validatePoses accepts exactly the arrays of 1 to 1000 poses that are
\* all acceptable; for an array of that length with an unacceptable pose the
\* one error names the lowest index of such a pose and, inside it, the lowest
\* index of an unacceptable keypoint, and nothing else.
PosesAcceptedExactly ==
  (pureCall.op = "validatePoses" /\ pureCall.out # Undefined) =>
    LET poses == pureCall.poses
        r == Val(pureCall.out)
        bad == {i \in 1..Len(poses) : ~PoseAcceptable(poses[i])}
    IN /\ r.isValid <=> (Len(poses) >= 1 /\ Len(poses) <= 1000 /\ bad = {})
       /\ (Len(poses) >= 1 /\ Len(poses) <= 1000 /\ bad # {}) =>
            r.error = "Pose at index " \o ToString(Lowest(bad) - 1) \o ": "
                        \o ReportedForPose(poses[Lowest(bad)])

\* ------------------------------------------------------------------ C19

\* 10 MB, in bytes
TenMegabytes == 10485760

SaveFrameTruthy(options) == options.isObject /\ options.saveFrame

\* a frame was passed: not null and not the empty string
FramePresent(frame) == frame.kind # "null" /\ ~(frame.kind = "string" /\ frame.empty)

\* data:image/<type>;base64,<data> with one of the six types and base64 data
IsImageDataUrl(frame) ==
  /\ frame.kind = "string"
  /\ frame.dataUrl
  /\ frame.imageType \in {"jpeg", "jpg", "png", "gif", "bmp", "webp"}
  /\ frame.dataLen >= 1
  /\ frame.dataChars = "base64"

\* the bytes the base64 data decode to: 3 for every 4 characters, less padding
DecodedSize(frame) == (frame.dataLen * 3) \div 4 - frame.padding

FrameMessages ==
  {"Frame validation failed: " \o m :
     m \in {"Frame must be a string",
            "Frame must be a valid base64 data URL (data:image/[type];base64,[data])",
            "Frame image is too large (maximum 10MB)"}}

\* C19: with options.saveFrame truthy and a frame present, a frame that is
\* no base64 data URL of one of the six image types, or that decodes to more
\* than 10 MB, makes validateInputs fail with a 'Frame validation failed'
\* error; with saveFrame falsy or no frame, the frame changes nothing in the
\* result.
FrameCheckedOnlyWhenSaved ==
  ValidateInputsDone =>
    LET a == pureCall.a
        r == Val(pureCall.out)
    IN /\ ( /\ SaveFrameTruthy(a.options)
            /\ FramePresent(a.frame)
            /\ (~IsImageDataUrl(a.frame) \/ DecodedSize(a.frame) > TenMegabytes) ) =>
            /\ ~r.isValid
            /\ \E i \in 1..Len(r.errors) : r.errors[i] \in FrameMessages
       /\ (~SaveFrameTruthy(a.options) \/ ~FramePresent(a.frame)) =>
            /\ \A i \in 1..Len(r.errors) : r.errors[i] \notin FrameMessages
            /\ r = validateInputs(a.session, a.sequence, a.poses, a.tag,
                                  NoFrame, a.options)

\* a frame of a type outside the six was the one reason a call was rejected,
\* and the same call without saveFrame passed
FrameAloneRejected ==
  /\ ValidateInputsDone
  /\ pureCall.a.frame = TiffFrame
  /\ pureCall.a.options = Options(TRUE)
  /\ Val(pureCall.out).errors =
       <<"Frame validation failed: Frame must be a valid base64 data URL (data:image/[type];base64,[data])">>
  /\ validateInputs(pureCall.a.session, pureCall.a.sequence, pureCall.a.poses,
                    pureCall.a.tag, pureCall.a.frame, Options(FALSE)).isValid

\* ------------------------------------------------------------------ C20

\* the keys of a sequence entry
EntryKeys ==
  {"id", "session", "sequence", "tag", "timestamp", "duration", "poses",
   "metadata", "frame_reference"}

\* the path generateFrameReference gives the call's frame
FrameReferenceOfCall ==
  generateFrameReference(pureCall.a.session, pureCall.a.sequence,
                         IF pureCall.impl = "tagger" THEN DataPathOf(pureCall.a)
                         ELSE DefaultDataPath,
                         pureCall.t)

\* C20: in the entry of a successful addSequence, frame_reference is non-null
\* exactly when options.saveFrame is true and a frame was provided; the entry
\* has no field for the frame data, only the reference path.
FrameReferenceOnlyWhenSaved ==
  \A entry \in BuiltEntries :
    /\ entry.frame_reference # Undefined <=>
         (pureCall.a.options.saveFrame /\ FramePresent(pureCall.a.frame))
    /\ entry.frame_reference # Undefined =>
         entry.frame_reference = Some(FrameReferenceOfCall)
    /\ DOMAIN entry = EntryKeys
    /\ DOMAIN entry.metadata \cap {"frame", "frameData"} = {}

\* an entry with a reference was built for a frame passed with saveFrame set
ReferencedEntryBuilt ==
  \E entry \in BuiltEntries :
    /\ pureCall.a.frame = JpegFrame
    /\ pureCall.a.options.saveFrame
    /\ entry.frame_reference # Undefined

\* ------------------------------------------------------------------ C21

NormalizeSinglePoseDone ==
  pureCall.op = "normalizeSinglePose" /\ pureCall.out # Undefined

\* the axis-aligned box over the keypoints marked visible, the zero box when
\* there is none
BoxOverVisible(keypoints) ==
  LET visible == {i \in 1..Len(keypoints) : keypoints[i].visible}
      xs == {keypoints[i].position.x : i \in visible}
      ys == {keypoints[i].position.y : i \in visible}
  IN IF visible = {} THEN [x |-> 0, y |-> 0, width |-> 0, height |-> 0]
     ELSE [x |-> Min(xs), y |-> Min(ys),
           width |-> Max(xs) - Min(xs), height |-> Max(ys) - Min(ys)]

\* C21: the bbox of the normalized pose of a validated pose is the axis-aligned
\* box over the output keypoints marked visible, so every visible keypoint lies
\* inside it, and the zero box when no keypoint is visible; no other field of
\* the input pose changes it.
BboxFromVisibleKeypoints ==
  NormalizeSinglePoseDone =>
    LET out == Val(pureCall.out)
    IN /\ out.bbox = BoxOverVisible(out.keypoints)
       /\ \A i \in 1..Len(out.keypoints) :
            out.keypoints[i].visible =>
              /\ out.bbox.x <= out.keypoints[i].position.x
              /\ out.keypoints[i].position.x <= out.bbox.x + out.bbox.width
              /\ out.bbox.y <= out.keypoints[i].position.y
              /\ out.keypoints[i].position.y <= out.bbox.y + out.bbox.height
       /\ out.bbox = normalizeSinglePose([pureCall.pose EXCEPT !.boundingBox = Undefined],
                                         pureCall.frameIndex, pureCall.options).bbox

\* ------------------------------------------------------------------ C22

FrameSaved(c) == frameResult[c] # Undefined /\ Val(frameResult[c]).success

\* the frame_reference of the entry call c sent to be appended
FrameReferenceOfEntry(c) == Val(Val(request[c]).data.frame_reference)

\* C22: when a frame is saved for an entry, the image file is at exactly the
\* path recorded in the entry's frame_reference, which is
\* {dataPath}/sessions/{sanitize(session)}/frames/{sanitize(sequence)}_{timestamp}.jpg,
\* inside the frames directory ensureDirectoryStructure made next to the
\* session log.
FrameStoredAtReference ==
  \A c \in Calls :
    FrameSaved(c) =>
      LET a == Val(args[c])
          reference == FrameReferenceOfEntry(c)
          name == reference[Len(reference)]
      IN /\ Resolve(reference) \in DOMAIN frameFiles
         /\ frameFiles[Resolve(reference)] = a.frame
         /\ Dirname(reference)
              = DefaultDataPath \o << <<"sessions">>, sanitizeString(a.session),
                                      <<"frames">> >>
         /\ \E t \in 0..MaxClock :
              name = sanitizeString(a.sequence) \o <<"_", ToString(t), ".jpg">>
         /\ Dirname(Resolve(reference)) = Resolve(Join(SessionDirOf(c), <<"frames">>))
         /\ Dirname(Resolve(reference)) \in dirs


\* ------------------------------------------------------------------ C23

\* C23: metadata never runs ahead of the log: in every reachable state, whatever
\* the interleaving of the appends to a session and whichever log write or
\* metadata write fails, sequence_count is at most the number of lines of the
\* session log and total_frames at most the sum of poses.length over the
\* logged entries
MetadataNeverAhead ==
  \A p \in DOMAIN metaFiles :
    LET entries == EntriesOf(Dirname(p))
    IN /\ metaFiles[p].sequence_count <= Len(entries)
       /\ metaFiles[p].statistics.total_frames <= TotalPoses(entries)

\* two appends to one session overlapped; the log write of one failed and the
\* other went through, so that the metadata counts as many entries and poses as
\* the log holds
MetadataLevelWithLog ==
  \E c, d \in Calls :
    /\ overlapped
    /\ pc[c] = "done" /\ fault[c] = "appendFile"
    /\ pc[d] = "done" /\ impl[d] = "renderer" /\ Val(result[d]).success
    /\ request[c] # Undefined /\ LogFileOf(c) = LogFileOf(d)
    /\ MetadataPathOf(d) \in DOMAIN metaFiles
    /\ metaFiles[MetadataPathOf(d)].sequence_count = 1
    /\ metaFiles[MetadataPathOf(d)].statistics.total_frames
         = TotalPoses(EntriesOf(SessionDirOf(d)))
    /\ Len(EntriesOf(SessionDirOf(d))) = 1


\* ------------------------------------------------------------------ C24

\* the sum of the values of a pose_distribution; a null adds nothing
PoseDistributionSum(pd) ==
  SumOver([t \in DOMAIN pd |-> IF pd[t] = Undefined THEN 0 ELSE Val(pd[t])], DOMAIN pd)

\* tags holds each tag of the entries once and no other tag
TagsAreThoseOf(tags, entries) ==
  /\ \A i, j \in 1..Len(tags) : tags[i] = tags[j] => i = j
  /\ {tags[i] : i \in 1..Len(tags)} = {entries[i].tag : i \in 1..Len(entries)}

\* C24: after non-overlapping appends that all returned success: true to a
\* session that started empty, sequence_count is the number of lines of the
\* session log, tags holds each distinct tag of the appended entries exactly
\* once, and the values of pose_distribution sum to sequence_count
MetadataMatchesLog ==
  AppendsSucceeded =>
    \A sessionDir \in SessionDirs :
      /\ MetadataFileOf(sessionDir) \in DOMAIN metaFiles
      /\ LET m == metaFiles[MetadataFileOf(sessionDir)]
             entries == EntriesOf(sessionDir)
         IN /\ m.sequence_count = Len(entries)
            /\ TagsAreThoseOf(m.tags, entries)
            /\ PoseDistributionSum(m.statistics.pose_distribution) = m.sequence_count


\* ------------------------------------------------------------------ C25

\* a count of a pose_distribution; a tag it does not hold, or holds as null,
\* counts as 0
PoseCount(pd, tag) == IF tag \in DOMAIN pd /\ pd[tag] # Undefined THEN Val(pd[tag]) ELSE 0

\* what a step that rewrites a metadata file, read without failure, leaves
\* alone and what it only adds to
MetadataKeptAndExtended(old, new) ==
  /\ new.session_id = old.session_id
  /\ new.created_at = old.created_at
  /\ Len(new.tags) >= Len(old.tags)
  /\ SubSeq(new.tags, 1, Len(old.tags)) = old.tags
  /\ new.sequence_count = old.sequence_count + 1
  /\ new.statistics.total_frames >= old.statistics.total_frames
  /\ DOMAIN old.statistics.pose_distribution \subseteq DOMAIN new.statistics.pose_distribution
  /\ \A tag \in DOMAIN old.statistics.pose_distribution :
       PoseCount(new.statistics.pose_distribution, tag)
         >= PoseCount(old.statistics.pose_distribution, tag)

\* no step deletes a metadata file, and a step that makes one is the metadata
\* write of a session's first counted append
MetadataFilesStay ==
  /\ DOMAIN metaFiles \subseteq DOMAIN metaFiles'
  /\ \A p \in DOMAIN metaFiles' \ DOMAIN metaFiles :
       /\ metaFiles'[p].sequence_count = 1
       /\ \E c \in Calls : pc[c] = "writeMetadata" /\ MetadataPathOf(c) = p

\* the metadata files a step rewrites, no read of an existing file having failed
RewrittenMetadata ==
  {p \in DOMAIN metaFiles : ~readFailed /\ metaFiles'[p] # metaFiles[p]}

\* C25 as stated: the first append creates the metadata; every later append
\* leaves session_id and created_at unchanged, removes no tag, decreases no
\* count and changes updated_at; no append deletes the metadata file or resets
\* it while a readable metadata file exists
MetadataLifecycleChangesUpdatedAt ==
  [][/\ MetadataFilesStay
     /\ \A p \in RewrittenMetadata :
          /\ MetadataKeptAndExtended(metaFiles[p], metaFiles'[p])
          /\ metaFiles'[p].updated_at # metaFiles[p].updated_at]_vars

\* C25: when appends do not overlap, the first append creates the metadata;
\* every later append whose read of the file succeeds leaves session_id and
\* created_at unchanged, removes no tag, adds one to sequence_count, decreases
\* neither total_frames nor a pose_distribution count and sets updated_at to
\* the time of the update, which is the time it held when two updates fall into
\* one millisecond; no append deletes the metadata file
MetadataLifecycle ==
  [][/\ MetadataFilesStay
     /\ \A p \in RewrittenMetadata :
          /\ MetadataKeptAndExtended(metaFiles[p], metaFiles'[p])
          /\ metaFiles'[p].updated_at >= metaFiles[p].updated_at
          /\ metaFiles'[p].updated_at = now]_vars

\* a later append has extended the metadata of a session within the
\* millisecond of its creation: a second tag is added and updated_at is as it was
SecondAppendInSameMillisecond ==
  \E p \in DOMAIN metaFiles :
    /\ ~readFailed
    /\ metaFiles[p].sequence_count = 2
    /\ Len(metaFiles[p].tags) = 2
    /\ metaFiles[p].updated_at = metaFiles[p].created_at


\* ------------------------------------------------------------------ C26

\* the calls whose fs.appendFile to the log at path has resolved
AppendedTo(path) ==
  {c \in Calls : request[c] # Undefined /\ lineOf[c] > 0 /\ LogFileOf(c) = path}

\* call c is past a fs.appendFile that resolved
LogWriteSucceeded(c) ==
  /\ impl[c] = "renderer"
  /\ request[c] # Undefined
  /\ pc[c] \notin {"idle", "ensureDirs", "appendFile"}
  /\ fault[c] \notin {"mkdir", "appendFile"}

ValidSessionNames == {a.session : a \in {b \in CallInputs : ~ArgsRejected(b)}}

LogPathOfSession(session) == Resolve(generateSessionPath(session, DefaultDataPath))

MetadataPathOfSession(session) ==
  Resolve(Join(Dirname(generateSessionPath(session, DefaultDataPath)),
               <<"metadata.json">>))

FileUntouched(files, filesAfter, path) ==
  /\ (path \in DOMAIN filesAfter) = (path \in DOMAIN files)
  /\ path \in DOMAIN files => filesAfter[path] = files[path]

\* a step of the append of call c leaves the log and the metadata of every
\* other session as they were
OtherSessionsUntouched ==
  \A c \in Calls :
    (pc[c] \in AppendPcs /\ pc'[c] # pc[c]) =>
      \A other \in ValidSessionNames \ {Val(args[c]).session} :
        /\ FileUntouched(logFiles, logFiles', LogPathOfSession(other))
        /\ FileUntouched(metaFiles, metaFiles', MetadataPathOfSession(other))

\* the calls that passed validation and sent their entry to be appended
Appending == {c \in Calls : impl[c] = "renderer" /\ request[c] # Undefined}

DistinctSessionsDistinctLogs ==
  \A c, d \in Appending :
    Val(args[c]).session # Val(args[d]).session => LogFileOf(c) # LogFileOf(d)

\* C27: session isolation: an append for a session, with any outcome, leaves
\* the log file and the metadata file of every other session unchanged, for
\* every pair of distinct session names that pass validation; distinct valid
\* session names never resolve to the same log path
SessionIsolation ==
  /\ [][OtherSessionsUntouched]_vars
  /\ []DistinctSessionsDistinctLogs


\* ------------------------------------------------------------------ C28

\* call c has returned success: true to its caller
ReturnedSuccess(c) == pc[c] = "done" /\ result[c] # Undefined /\ Val(result[c]).success

\* the log path and the entry of a call that returned success
PersistencePathOf(c) ==
  IF impl[c] = "tagger"
  THEN Val(Val(result[c]).persistence).sessionPath
  ELSE Val(request[c]).sessionPath

EntryOf(c) ==
  IF impl[c] = "tagger" THEN Val(Val(result[c]).data) ELSE Val(request[c]).data

\* the session log holds a line with the entry of call c and the session's
\* metadata file has been written
EntryPersisted(c) ==
  LET log == Resolve(PersistencePathOf(c))
      metadataPath == Resolve(Join(Dirname(PersistencePathOf(c)), <<"metadata.json">>))
  IN /\ log \in DOMAIN logFiles
     /\ \E i \in 1..Len(logFiles[log]) : logFiles[log][i] = JsonLine(EntryOf(c))
     /\ metadataPath \in DOMAIN metaFiles
     /\ metaFiles[metadataPath].sequence_count >= 1

\* C28: a successful addSequence has persisted its entry: whenever addSequence
\* returns success: true, in the direct Node implementation and in the renderer
\* with the main-process handler alike, the session log holds a line with that
\* entry and the session metadata has been updated before the result is returned
SuccessMeansPersisted ==
  \A c \in Calls : ReturnedSuccess(c) => EntryPersisted(c)


\* ------------------------------------------------------------------ C29

\* the frameReference of the data a renderer call returned to its caller
ReturnedFrameReference(c) == Val(Val(result[c]).data).frameReference

\* the log append of call c succeeded and its frame image write failed
FrameWriteFailed(c) ==
  /\ Val(saveResult[c]).success
  /\ frameResult[c] # Undefined
  /\ ~Val(frameResult[c]).success

\* C29: the result the caller of the renderer addSequence receives reports the
\* frame outcome truthfully: when the log append succeeded and the frame image
\* write failed, the returned data carries frameReference null, as the handler
\* reports it, and it carries a frameReference only when the frame file was
\* written
FrameOutcomeReported ==
  \A c \in Calls :
    (ReturnedSuccess(c) /\ impl[c] = "renderer") =>
      /\ FrameWriteFailed(c) => ReturnedFrameReference(c) = Undefined
      /\ ReturnedFrameReference(c) = Val(Val(saveResult[c]).data).frameReference
      /\ ReturnedFrameReference(c) # Undefined => FrameSaved(c)


\* ------------------------------------------------------------------ C30

\* [a-z0-9_-], over the characters the model's strings are made of
SanitizedChars == IdLetters \cup IdDigits \cup {"_", "-"}

WellFormedName(name) ==
  /\ name # <<>>
  /\ Len(name) <= SanitizeMaxLen
  /\ \A i \in 1..Len(name) : name[i] \in SanitizedChars
  /\ name[1] # "_"
  /\ name[Len(name)] # "_"

\* C30: for every input (any string, the empty string, or a non-string),
\* sanitizeString returns a non-empty string of at most 50 characters that holds
\* only characters of [a-z0-9_-] and neither starts nor ends with '_', so that
\* no generated frame path or session path has an empty name segment
SanitizedNameWellFormed ==
  (pureCall.op = "sanitizeString" /\ pureCall.out # Undefined) =>
    /\ WellFormedName(Val(pureCall.out).once)
    /\ LET frameReference == generateFrameReference(pureCall.str, pureCall.str,
                                                    DefaultDataPath, 0)
           sessionPath == EncodingGenerateSessionPath(pureCall.str)
       IN /\ \A i \in 1..Len(frameReference) : frameReference[i] # <<>>
          /\ \A i \in 1..Len(sessionPath) : sessionPath[i] # <<>>

====
